---- MODULE Spec2Model ----
(***************************************************************************)
(* A model of the PRAG retrieval-augmented-generation backend:             *)
(*   - ChunkingService (character and token sliding windows),              *)
(*   - the "Convert All" batch conversion loop of the preprocessing tab,   *)
(*   - collection creation / deletion, ingest_file, rag_query and          *)
(*     query_collection over the vector index and the metadata files.      *)
(* Strings are sequences of one-character strings.                         *)
(***************************************************************************)
EXTENDS Integers, Sequences, FiniteSets, TLC

VARIABLES
    chunker,        \* one ChunkingService.chunk_text call: inputs, loop position, output
    batch,          \* one "Convert All" click of the preprocessing tab
    dirExists,      \* data_dir/<collection_id> exists
    collectionInfo, \* search_type in collection_info.json, "none" when the file is absent
    index,          \* the Qdrant collection: "none", "dense" or "hybrid" (dense + sparse)
    points,         \* the points of the Qdrant collection, in upsert order
    nextId,         \* number of point ids handed out so far (uuid4 never repeats)
    metadataFiles,  \* paper_id -> content of metadata/<paper_id>.json, or NoFile
    ingest,         \* the ingest_file call in progress
    rag,            \* the rag_query call being answered: request, backend calls, response
    qry,            \* the query_collection call being answered
    crt,            \* the POST /ingest/create call being answered
    ingestLoop,     \* one "Create Collection & Ingest" click of the collections tab
    embedder,       \* one OllamaService.generate_embeddings_batch call
    splitter,       \* one text on its way through _split_references and the chunker
    cleaner,        \* one chunk text on its way through _clean_context into the prompt
    fusion,         \* one fused (dense + sparse) query_points call of the index
    prep,           \* the preprocessing service: files, history.json and its calls
    dims            \* the embedding model in force, the index's vector size, the last vector sent

sysVars == <<dirExists, collectionInfo, index, points, nextId, metadataFiles, ingest,
             rag, qry, crt>>

\* The components exercised on their own, outside the backend's request handlers.
toolVars == <<chunker, batch, ingestLoop, embedder, splitter, cleaner, fusion, prep,
              dims>>

vars == <<chunker, batch, dirExists, collectionInfo, index, points, nextId,
          metadataFiles, ingest, rag, qry, crt, ingestLoop, embedder, splitter, cleaner,
          fusion, prep, dims>>

----------------------------------------------------------------------------
(* Bounds of the model *)

MaxLen == 4         \* longest text handed to the chunker
MaxSize == 3        \* largest chunk_size tried
MaxOverlap == 3     \* largest overlap tried
MaxSpin == 2        \* iterations a chunking loop is followed beyond Len(text)
MaxPoints == 4       \* most point ids handed out in one behaviour
MaxLimit == 2        \* largest `limit` of a search request
MaxFiles == 5       \* most pending files of one "Convert All" click
MaxBatch == 3       \* most texts of one generate_embeddings_batch call
MaxLines == 3       \* most lines of a markdown text handed to _split_references

----------------------------------------------------------------------------
(* Strings *)

Min(a, b) == IF a < b THEN a ELSE b
Max(a, b) == IF a > b THEN a ELSE b

Alphabet == {"a", "b", " "}

RECURSIVE TextsOfLen(_)
TextsOfLen(n) ==
    IF n = 0 THEN {<<>>}
    ELSE {Append(t, c) : t \in TextsOfLen(n - 1), c \in Alphabet}

Texts == UNION {TextsOfLen(n) : n \in 0..MaxLen}

\* Python's s[a:b] for integers a, b (negative indices count from the end).
PySlice(s, a, b) ==
    LET n  == Len(s)
        lo == IF a < 0 THEN Max(a + n, 0) ELSE Min(a, n)
        hi == IF b < 0 THEN Max(b + n, 0) ELSE Min(b, n)
    IN  IF lo >= hi THEN <<>> ELSE SubSeq(s, lo + 1, hi)

\* Whitespace: what str.split, str.strip and the regex class \s take.
IsSpace(c) == c \in {" ", "\n", "\t"}

\* Python's s.split(): the maximal runs of non-whitespace characters.
RECURSIVE SplitFrom(_, _, _, _)
SplitFrom(s, i, cur, acc) ==
    IF i > Len(s)
    THEN IF cur = <<>> THEN acc ELSE Append(acc, cur)
    ELSE IF IsSpace(s[i])
         THEN SplitFrom(s, i + 1, <<>>, IF cur = <<>> THEN acc ELSE Append(acc, cur))
         ELSE SplitFrom(s, i + 1, Append(cur, s[i]), acc)

Split(s) == SplitFrom(s, 1, <<>>, <<>>)

\* " ".join(words)
RECURSIVE JoinSpace(_)
JoinSpace(words) ==
    IF words = <<>> THEN <<>>
    ELSE IF Len(words) = 1 THEN words[1]
    ELSE words[1] \o <<" ">> \o JoinSpace(Tail(words))

----------------------------------------------------------------------------
(* Idle values of the collection store, the index and the request handlers *)

\* File stems of the preprocessed markdown files; the stem is the paper_id.
PaperIds == {<<"p", "1">>, <<"p", "2">>}

NoFile == [exists |-> FALSE]

IngestIdle ==
    [pc |-> "idle", paper_id |-> <<>>, unique_id |-> <<>>, metadata |-> NoFile,
     chunks |-> <<>>, references |-> <<>>, sparse |-> FALSE, embed_fails |-> {},
     embeddings |-> <<>>, upserted |-> 0]

NoRequest == [query_text |-> <<>>, use_hybrid |-> FALSE, paper_ids |-> {}, limit |-> 1]

RagIdle ==
    [pc |-> "idle", req |-> NoRequest, status |-> 0, embed_calls |-> 0,
     sparse_calls |-> 0, search |-> "not_called", asked_fusion |-> FALSE,
     search_mode |-> "none", hits |-> <<>>, results |-> <<>>,
     prompt_built |-> FALSE, valid_keys |-> {}, tags |-> <<>>,
     generate_calls |-> 0, answer |-> "", citations |-> <<>>]

QryIdle ==
    [pc |-> "idle", req |-> NoRequest, status |-> 0, embed_calls |-> 0,
     search |-> "not_called", results |-> <<>>]

CrtIdle ==
    [pc |-> "idle", search_type |-> "dense", status |-> 0, taken |-> FALSE,
     probe_calls |-> 0, index_create_calls |-> 0]

\* No "Create Collection & Ingest" click is being handled.
IngestLoopIdle ==
    [pc |-> "idle", search_type |-> "dense", chunk_mode |-> "characters",
     selected_files |-> <<>>, i |-> 1, attempts |-> <<>>, outcomes |-> <<>>,
     progress |-> 0, label |-> "none"]

EmbedderIdle ==
    [pc |-> "idle", texts |-> <<>>, fails |-> {}, i |-> 1, embeddings |-> <<>>,
     returned |-> <<>>]

SplitterIdle ==
    [pc |-> "idle", lines |-> <<>>, text |-> <<>>, body |-> <<>>,
     references |-> <<>>, chunks |-> <<>>, stored |-> <<>>]

CleanerIdle ==
    [pc |-> "idle", chunk_text |-> <<>>, excerpt |-> <<>>, context_part |-> <<>>]

FusionIdle ==
    [pc |-> "idle", dense_ranking |-> <<>>, sparse_ranking |-> <<>>, limit |-> 1,
     dense_hits |-> <<>>, sparse_hits |-> <<>>, response |-> <<>>]

\* history.json as get_history reads it when the file is absent.
EmptyHistory == [d \in {} |-> [files |-> <<>>, last_processed |-> 0]]

\* A worker thread of the preprocessing endpoints that serves no call.
NoCall == [op |-> "none", dir |-> "", file |-> "", pc |-> "idle", local |-> EmptyHistory]

PrepIdle ==
    [md |-> {}, meta |-> {}, history |-> EmptyHistory, clock |-> 0, lock |-> 0,
     threads |-> <<>>, started |-> 0, last_op |-> <<>>, failed |-> 0]

\* config.yaml names the embedding model the tests expect, no index collection
\* exists and no dense vector was sent to the index.
DimsIdle ==
    [embedding_model |-> "mxbai-embed-large", vector_size |-> 0, requests |-> 0,
     sent |-> [op |-> "none", length |-> 0, vector_size |-> 0]]

\* Nothing created, nothing ingested, no request in progress.
SysInit ==
    /\ dirExists = FALSE
    /\ collectionInfo = "none"
    /\ index = "none"
    /\ points = <<>>
    /\ nextId = 0
    /\ metadataFiles = [p \in PaperIds |-> NoFile]
    /\ ingest = IngestIdle
    /\ rag = RagIdle
    /\ qry = QryIdle
    /\ crt = CrtIdle

----------------------------------------------------------------------------
(* ChunkingService *)

\* tokenizer.encode(text, add_special_tokens=False): one token per word.
Encode(text) == Split(text)

\* tokenizer.decode(chunk_ids, skip_special_tokens=True)
Decode(ids) == JoinSpace(ids)

\* Character loop, "start += (self.chunk_size - self.overlap)".
NextStart_NoOverlap(start, size, overlap) == start + size
NextStart(start, size, overlap) == start + (size - overlap)

\* Character loop, "if end >= len(text): break".
CharBreak_Early(text, end) == end + 1 >= Len(text)
CharBreak(text, end) == end >= Len(text)

\* Token loop, "step = self.chunk_size - self.overlap" and "start += step".
TokenNextStart(start, size, overlap) == start + (size - overlap)

\* No "Convert All" click is being handled.
BatchIdle ==
    [pc |-> "idle", pending |-> <<>>, i |-> 1, success_count |-> 0,
     error_count |-> 0, attempts |-> <<>>, outcomes |-> <<>>, label |-> "none",
     services |-> 0, in_flight |-> <<>>, peak |-> 0]

ChunkerIdle ==
    [pc |-> "idle", mode |-> "characters", text |-> <<>>, size |-> 1,
     overlap |-> 0, start |-> 0, chunks |-> <<>>, token_ids |-> <<>>]

\* The text of Scenario A: 120 characters.
ScenarioText == [i \in 1..120 |-> IF i % 7 \in {0, 3} THEN "a" ELSE "b"]

ChunkInit ==
    /\ \/ \E t \in Texts, s \in 1..MaxSize, o \in 0..MaxOverlap,
            m \in {"characters", "tokens"} :
            chunker = [ChunkerIdle EXCEPT !.pc = "called", !.mode = m,
                                          !.text = t, !.size = s, !.overlap = o]
       \/ chunker = [ChunkerIdle EXCEPT !.pc = "called", !.text = ScenarioText,
                                        !.size = 50, !.overlap = 10]
    /\ batch = BatchIdle
    /\ ingestLoop = IngestLoopIdle
    /\ embedder = EmbedderIdle
    /\ splitter = SplitterIdle
    /\ cleaner = CleanerIdle
    /\ fusion = FusionIdle
    /\ prep = PrepIdle
    /\ dims = DimsIdle
    /\ SysInit

\* chunk_text dispatch and the short-text return of _chunk_by_characters.
ChunkByCharactersCall ==
    /\ chunker.pc = "called"
    /\ chunker.mode # "tokens"
    /\ chunker' = IF Len(chunker.text) <= chunker.size
                  THEN [chunker EXCEPT !.pc = "done", !.chunks = <<chunker.text>>]
                  ELSE [chunker EXCEPT !.pc = "char_loop", !.start = 0,
                                       !.chunks = <<>>]
    /\ UNCHANGED <<batch, ingestLoop, embedder, splitter, cleaner, fusion, prep, dims, sysVars>>

\* One evaluation of the while condition of _chunk_by_characters and, when it
\* holds, one iteration of the body.
ChunkByCharactersIter ==
    /\ chunker.pc = "char_loop"
    /\ Len(chunker.chunks) < Len(chunker.text) + MaxSpin
    /\ LET c == chunker
           end == c.start + c.size
       IN  chunker' =
             IF c.start < Len(c.text)
             THEN [c EXCEPT !.chunks = Append(c.chunks, PySlice(c.text, c.start, end)),
                            !.start = NextStart(c.start, c.size, c.overlap),
                            !.pc = IF CharBreak(c.text, end) THEN "done"
                                   ELSE "char_loop"]
             ELSE [c EXCEPT !.pc = "done"]
    /\ UNCHANGED <<batch, ingestLoop, embedder, splitter, cleaner, fusion, prep, dims, sysVars>>

\* chunk_text dispatch, tokenization and the short-text return of _chunk_by_tokens.
ChunkByTokensCall ==
    /\ chunker.pc = "called"
    /\ chunker.mode = "tokens"
    /\ LET ids == Encode(chunker.text)
       IN  chunker' = IF Len(ids) <= chunker.size
                      THEN [chunker EXCEPT !.pc = "done", !.token_ids = ids,
                                           !.chunks = <<chunker.text>>]
                      ELSE [chunker EXCEPT !.pc = "token_loop", !.token_ids = ids,
                                           !.start = 0, !.chunks = <<>>]
    /\ UNCHANGED <<batch, ingestLoop, embedder, splitter, cleaner, fusion, prep, dims, sysVars>>

\* One evaluation of the while condition of _chunk_by_tokens and one iteration.
ChunkByTokensIter ==
    /\ chunker.pc = "token_loop"
    /\ Len(chunker.chunks) < Len(chunker.text) + MaxSpin
    /\ LET c == chunker
           n == Len(c.token_ids)
           end == Min(c.start + c.size, n)
       IN  chunker' =
             IF c.start < n
             THEN [c EXCEPT !.chunks = Append(c.chunks,
                                              Decode(PySlice(c.token_ids, c.start, end))),
                            !.start = IF end >= n THEN c.start
                                      ELSE TokenNextStart(c.start, c.size, c.overlap),
                            !.pc = IF end >= n THEN "done" ELSE "token_loop"]
             ELSE [c EXCEPT !.pc = "done"]
    /\ UNCHANGED <<batch, ingestLoop, embedder, splitter, cleaner, fusion, prep, dims, sysVars>>

ChunkNext ==
    \/ ChunkByCharactersCall
    \/ ChunkByCharactersIter
    \/ ChunkByTokensCall
    \/ ChunkByTokensIter

ChunkSpec == ChunkInit /\ [][ChunkNext]_vars

\* C5: character mode with 0 <= overlap < size: chunk k is the slice of the text
\* starting at k*(size-overlap) of length at most size, the chunk ranges cover
\* every character, consecutive chunks share exactly `overlap` characters, and
\* only the final chunk may be shorter than size.
C5_ChunkCoverage ==
    (chunker.pc = "done" /\ chunker.mode = "characters"
                         /\ chunker.overlap < chunker.size) =>
        LET t    == chunker.text
            L    == Len(t)
            s    == chunker.size
            o    == chunker.overlap
            step == s - o
            cs   == chunker.chunks
            n    == Len(cs)
        IN  /\ n >= 1
            /\ \A k \in 1..n :
                 cs[k] = SubSeq(t, (k - 1) * step + 1, Min((k - 1) * step + s, L))
            /\ \A i \in 1..L :
                 \E k \in 1..n : (k - 1) * step < i /\ i <= (k - 1) * step + Len(cs[k])
            /\ \A k \in 1..(n - 1) :
                 /\ Len(cs[k]) = s
                 /\ Len(cs[k + 1]) >= o
                 /\ SubSeq(cs[k], s - o + 1, s) = SubSeq(cs[k + 1], 1, o)

\* A finished character-mode run with three or more chunks, a real overlap and a
\* short final chunk.
C5_Witness ==
    /\ chunker.pc = "done"
    /\ chunker.mode = "characters"
    /\ chunker.overlap >= 1
    /\ chunker.overlap < chunker.size
    /\ Len(chunker.chunks) >= 3
    /\ Len(chunker.chunks[Len(chunker.chunks)]) < chunker.size

IsScenarioA ==
    /\ chunker.mode = "characters"
    /\ chunker.text = ScenarioText
    /\ chunker.size = 50
    /\ chunker.overlap = 10

ChunkLengths == [k \in 1..Len(chunker.chunks) |-> Len(chunker.chunks[k])]

ConsecutiveOverlap(o) ==
    \A k \in 1..(Len(chunker.chunks) - 1) :
        LET a == chunker.chunks[k]
            b == chunker.chunks[k + 1]
        IN  /\ Len(a) >= o
            /\ Len(b) >= o
            /\ SubSeq(a, Len(a) - o + 1, Len(a)) = SubSeq(b, 1, o)

\* C6 as stated: Scenario A (120 characters, size 50, overlap 10) yields exactly
\* 3 chunks of lengths [50, 50, 20] with 10-character overlaps.
C6_ScenarioA_AsStated ==
    (chunker.pc = "done" /\ IsScenarioA) =>
        /\ ChunkLengths = <<50, 50, 20>>
        /\ ConsecutiveOverlap(10)

\* C6 amended: Scenario A yields exactly 3 chunks of lengths [50, 50, 40], with
\* 10-character overlaps between consecutive pairs.
C6_ScenarioA ==
    (chunker.pc = "done" /\ IsScenarioA) =>
        /\ ChunkLengths = <<50, 50, 40>>
        /\ ConsecutiveOverlap(10)

C6_Witness == chunker.pc = "done" /\ IsScenarioA /\ Len(chunker.chunks) = 3

\* C7: a degenerate configuration (overlap >= size) is rejected: in character
\* and in token mode the chunking loop never runs with a non-positive step.
C7_DegenerateRejected ==
    chunker.pc \in {"char_loop", "token_loop"} => chunker.size - chunker.overlap > 0

----------------------------------------------------------------------------
(* "Convert All" of the preprocessing tab *)

\* How a POST of the frontend (httpx.post with a timeout, raise_for_status) ends:
\* a 2xx response, an error status, no connection, or the timeout running out
\* while the backend is still handling the request.
Responses == {"ok", "http_error", "transport_error", "timeout"}

\* _preprocess_single_file: True on a 2xx response; any exception of the request
\* or of raise_for_status is caught and turned into False.
PreprocessSingleFile_NoCatch(resp) == [value |-> resp = "ok", raised |-> resp # "ok"]
PreprocessSingleFile(resp) == [value |-> resp = "ok", raised |-> FALSE]

BatchInit ==
    /\ chunker = ChunkerIdle
    /\ ingestLoop = IngestLoopIdle
    /\ embedder = EmbedderIdle
    /\ splitter = SplitterIdle
    /\ cleaner = CleanerIdle
    /\ fusion = FusionIdle
    /\ prep = PrepIdle
    /\ dims = DimsIdle
    /\ SysInit
    /\ \E n \in 1..MaxFiles :
         batch = [BatchIdle EXCEPT !.pending = [k \in 1..n |-> k],
                                   !.attempts = [k \in 1..n |-> 0]]

\* The button handler up to the for loop.
ConvertAllClick ==
    /\ batch.pc = "idle"
    /\ batch.pending # <<>>
    /\ batch' = [batch EXCEPT !.pc = "loop", !.i = 1, !.success_count = 0,
                              !.error_count = 0]
    /\ UNCHANGED <<chunker, ingestLoop, embedder, splitter, cleaner, fusion, prep, dims, sysVars>>

\* One iteration of "for i, f in enumerate(pending)".
ConvertAllIter ==
    /\ batch.pc = "loop"
    /\ batch.i <= Len(batch.pending)
    /\ \E resp \in Responses :
         LET r == PreprocessSingleFile(resp)
             \* convert_pdf builds its own PreprocessingService (and converter) for
             \* every request that reaches the backend; a request the frontend
             \* gave up on keeps being handled.
             reached == resp # "transport_error"
             service == batch.services + 1
             tried == [batch EXCEPT
                         !.attempts[batch.i] = @ + 1,
                         !.services = IF reached THEN service ELSE @,
                         !.in_flight = IF resp = "timeout" THEN Append(@, service) ELSE @,
                         !.peak = IF reached THEN Max(@, Len(batch.in_flight) + 1) ELSE @]
         IN  batch' =
               IF r.raised
               THEN [tried EXCEPT !.pc = "raised"]
               ELSE IF r.value
               THEN [tried EXCEPT !.success_count = @ + 1, !.i = @ + 1,
                                  !.outcomes = Append(@, "success")]
               ELSE [tried EXCEPT !.error_count = @ + 1, !.i = @ + 1,
                                  !.outcomes = Append(@, "error")]
    /\ UNCHANGED <<chunker, ingestLoop, embedder, splitter, cleaner, fusion, prep, dims, sysVars>>

\* After the loop: the final status label.
ConvertAllFinish ==
    /\ batch.pc = "loop"
    /\ batch.i > Len(batch.pending)
    /\ batch' = [batch EXCEPT !.pc = "done",
                              !.label = IF batch.error_count = 0 THEN "complete"
                                        ELSE "error"]
    /\ UNCHANGED <<chunker, ingestLoop, embedder, splitter, cleaner, fusion, prep, dims, sysVars>>

\* A convert_pdf handler whose request timed out at the frontend returns.
ConvertPdfReturns ==
    /\ batch.in_flight # <<>>
    /\ \E k \in 1..Len(batch.in_flight) :
         batch' = [batch EXCEPT !.in_flight =
                      SubSeq(@, 1, k - 1) \o SubSeq(@, k + 1, Len(@))]
    /\ UNCHANGED <<chunker, ingestLoop, embedder, splitter, cleaner, fusion, prep, dims, sysVars>>

BatchNext ==
    \/ ConvertAllClick
    \/ ConvertAllIter
    \/ ConvertAllFinish
    \/ ConvertPdfReturns

BatchSpec == BatchInit /\ [][BatchNext]_vars

CountOf(seq, x) == Cardinality({k \in 1..Len(seq) : seq[k] = x})

\* C10: for a batch of n documents and any subset of failing conversions, every
\* document is attempted exactly once, exactly n outcomes are reported
\* (successes + errors = n), a failure never stops the remaining items, and the
\* coordinator does not raise.
C10_PerItemIsolation ==
    LET n == Len(batch.pending)
    IN  /\ batch.pc # "raised"
        /\ \A k \in 1..n : batch.attempts[k] <= 1
        /\ batch.pc = "loop" =>
             /\ \A k \in 1..n : batch.attempts[k] = (IF k < batch.i THEN 1 ELSE 0)
             /\ batch.success_count + batch.error_count = batch.i - 1
        /\ batch.pc = "done" =>
             /\ \A k \in 1..n : batch.attempts[k] = 1
             /\ Len(batch.outcomes) = n
             /\ batch.success_count = CountOf(batch.outcomes, "success")
             /\ batch.error_count = CountOf(batch.outcomes, "error")
             /\ batch.success_count + batch.error_count = n

\* A finished batch whose first conversion failed and a later one succeeded.
C10_Witness ==
    /\ batch.pc = "done"
    /\ Len(batch.outcomes) >= 3
    /\ batch.outcomes[1] = "error"
    /\ batch.success_count >= 1
    /\ batch.error_count >= 2

----------------------------------------------------------------------------
(* "Create Collection & Ingest" of the collections tab *)

\* What the POST /ingest/create comes back with.
CreateResponses == {"ok", "conflict", "http_error", "transport_error"}

IngestLoopInit ==
    /\ chunker = ChunkerIdle
    /\ batch = BatchIdle
    /\ embedder = EmbedderIdle
    /\ splitter = SplitterIdle
    /\ cleaner = CleanerIdle
    /\ fusion = FusionIdle
    /\ prep = PrepIdle
    /\ dims = DimsIdle
    /\ SysInit
    /\ \E n \in 1..MaxFiles, st \in {"dense", "hybrid"}, cm \in {"characters", "tokens"} :
         ingestLoop = [IngestLoopIdle EXCEPT !.search_type = st, !.chunk_mode = cm,
                                             !.selected_files = [k \in 1..n |-> k],
                                             !.attempts = [k \in 1..n |-> 0]]

\* The button handler up to the for loop: POST /ingest/create; a 409 and any
\* other failure end the handler.
IngestLoopCreate ==
    /\ ingestLoop.pc = "idle"
    /\ ingestLoop.selected_files # <<>>
    /\ \E resp \in CreateResponses :
         ingestLoop' =
           IF resp = "ok" THEN [ingestLoop EXCEPT !.pc = "loop", !.i = 1]
           ELSE IF resp = "conflict"
           THEN [ingestLoop EXCEPT !.pc = "returned", !.label = "already_exists"]
           ELSE [ingestLoop EXCEPT !.pc = "returned", !.label = "create_failed"]
    /\ UNCHANGED <<chunker, batch, embedder, splitter, cleaner, fusion, prep, dims, sysVars>>

\* "except Exception" of the loop body: report the file and leave the loop.
IngestLoopOnError(loop) ==
    [loop EXCEPT !.pc = "rerun", !.label = "failed_on_file"]

\* One iteration of "for i, f in enumerate(selected_files)": POST
\* /ingest/{collection_id}/file and raise_for_status.
IngestLoopIter ==
    /\ ingestLoop.pc = "loop"
    /\ ingestLoop.i <= Len(ingestLoop.selected_files)
    /\ \E resp \in Responses :
         LET tried == [ingestLoop EXCEPT !.attempts[ingestLoop.i] = @ + 1,
                                         !.outcomes = Append(@, resp)]
         IN  ingestLoop' =
               IF resp = "ok"
               THEN [tried EXCEPT !.i = @ + 1, !.progress = ingestLoop.i]
               ELSE IngestLoopOnError(tried)
    /\ UNCHANGED <<chunker, batch, embedder, splitter, cleaner, fusion, prep, dims, sysVars>>

\* The else branch of the for loop: the loop ran to its end without a break.
IngestLoopElse ==
    /\ ingestLoop.pc = "loop"
    /\ ingestLoop.i > Len(ingestLoop.selected_files)
    /\ ingestLoop' = [ingestLoop EXCEPT
                        !.pc = "rerun",
                        !.label = IF ingestLoop.label = "none" THEN "complete" ELSE @]
    /\ UNCHANGED <<chunker, batch, embedder, splitter, cleaner, fusion, prep, dims, sysVars>>

\* st.rerun() after the status block.
IngestLoopRerun ==
    /\ ingestLoop.pc = "rerun"
    /\ ingestLoop' = [ingestLoop EXCEPT !.pc = "done"]
    /\ UNCHANGED <<chunker, batch, embedder, splitter, cleaner, fusion, prep, dims, sysVars>>

IngestLoopNext ==
    \/ IngestLoopCreate
    \/ IngestLoopIter
    \/ IngestLoopElse
    \/ IngestLoopRerun

IngestLoopSpec == IngestLoopInit /\ [][IngestLoopNext]_vars

\* C11: batch ingestion never aborts early: when ingestion of file i fails,
\* files i+1..n are still attempted, so once the loop is over every selected
\* file has been attempted once and has its own outcome.
C11_NeverAbortsEarly ==
    ingestLoop.pc \in {"rerun", "done"} =>
        /\ \A k \in 1..Len(ingestLoop.selected_files) : ingestLoop.attempts[k] = 1
        /\ Len(ingestLoop.outcomes) = Len(ingestLoop.selected_files)

----------------------------------------------------------------------------
(* OllamaService.generate_embeddings_batch *)

\* generate_embedding(text): what the embedding backend answers for a text.
Embedding(text) == [of |-> text]

\* "embeddings.append(embedding)"
EmbeddingsAppend_Front(embeddings, embedding) == <<embedding>> \o embeddings
EmbeddingsAppend(embeddings, embedding) == Append(embeddings, embedding)

\* generate_embedding raises inside the loop: nothing catches it, the call ends
\* without a return value.
OnEmbeddingError_Skip(embeddings) == [raised |-> FALSE, embeddings |-> embeddings]
OnEmbeddingError(embeddings) == [raised |-> TRUE, embeddings |-> <<>>]

\* The texts handed to a batch call, and the positions the backend fails on.
BatchTexts == {<<"a">>, <<"b">>}

RECURSIVE TextListsOfLen(_)
TextListsOfLen(n) ==
    IF n = 0 THEN {<<>>}
    ELSE {Append(l, x) : l \in TextListsOfLen(n - 1), x \in BatchTexts}

EmbedInit ==
    /\ chunker = ChunkerIdle
    /\ batch = BatchIdle
    /\ ingestLoop = IngestLoopIdle
    /\ splitter = SplitterIdle
    /\ cleaner = CleanerIdle
    /\ fusion = FusionIdle
    /\ prep = PrepIdle
    /\ dims = DimsIdle
    /\ SysInit
    /\ \E n \in 0..MaxBatch :
         \E texts \in TextListsOfLen(n), fails \in SUBSET (1..n) :
            embedder = [EmbedderIdle EXCEPT !.pc = "loop", !.texts = texts,
                                            !.fails = fails]

\* One iteration of "for text in texts".
EmbedBatchIter ==
    /\ embedder.pc = "loop"
    /\ embedder.i <= Len(embedder.texts)
    /\ embedder' =
         IF embedder.i \in embedder.fails
         THEN LET r == OnEmbeddingError(embedder.embeddings)
              IN  IF r.raised
                  THEN [embedder EXCEPT !.pc = "raised", !.embeddings = r.embeddings]
                  ELSE [embedder EXCEPT !.i = @ + 1]
         ELSE [embedder EXCEPT
                 !.i = @ + 1,
                 !.embeddings = EmbeddingsAppend(@, Embedding(embedder.texts[embedder.i]))]
    /\ UNCHANGED <<chunker, batch, ingestLoop, splitter, cleaner, fusion, prep, dims, sysVars>>

\* "return embeddings"
EmbedBatchReturn ==
    /\ embedder.pc = "loop"
    /\ embedder.i > Len(embedder.texts)
    /\ embedder' = [embedder EXCEPT !.pc = "returned", !.returned = embedder.embeddings]
    /\ UNCHANGED <<chunker, batch, ingestLoop, splitter, cleaner, fusion, prep, dims, sysVars>>

EmbedNext ==
    \/ EmbedBatchIter
    \/ EmbedBatchReturn

EmbedSpec == EmbedInit /\ [][EmbedNext]_vars

\* generate_embeddings_batch as a function: the loop of EmbedBatchIter run to
\* its end.
RECURSIVE EmbedLoop(_, _, _, _)
EmbedLoop(texts, fails, i, embeddings) ==
    IF i > Len(texts) THEN [raised |-> FALSE, embeddings |-> embeddings]
    ELSE IF i \in fails
         THEN LET r == OnEmbeddingError(embeddings)
              IN  IF r.raised THEN r ELSE EmbedLoop(texts, fails, i + 1, r.embeddings)
         ELSE EmbedLoop(texts, fails, i + 1,
                        EmbeddingsAppend(embeddings, Embedding(texts[i])))

GenerateEmbeddingsBatch(texts, fails) == EmbedLoop(texts, fails, 1, <<>>)

\* C15: batch embedding preserves order: a call on n >= 0 texts returns exactly
\* n vectors, and the vector at position i is the embedding of the text at
\* position i.
C15_OrderPreserved ==
    /\ (embedder.pc = "loop" /\ embedder.fails = {}) =>
          /\ Len(embedder.embeddings) = embedder.i - 1
          /\ \A k \in 1..Len(embedder.embeddings) :
                embedder.embeddings[k] = Embedding(embedder.texts[k])
    /\ embedder.pc = "returned" =>
          /\ Len(embedder.returned) = Len(embedder.texts)
          /\ \A k \in 1..Len(embedder.texts) :
                embedder.returned[k] = Embedding(embedder.texts[k])

\* A returned batch of three texts that are not all the same.
C15_Witness ==
    /\ embedder.pc = "returned"
    /\ Len(embedder.texts) = 3
    /\ embedder.texts[1] # embedder.texts[3]
    /\ Len(embedder.returned) = 3

----------------------------------------------------------------------------
(* Citation keys: IngestionService._generate_unique_id and _extract_year *)

Digits == <<"0", "1", "2", "3", "4", "5", "6", "7", "8", "9">>
LowerLetters ==
    <<"a", "b", "c", "d", "e", "f", "g", "h", "i", "j", "k", "l", "m", "n",
      "o", "p", "q", "r", "s", "t", "u", "v", "w", "x", "y", "z">>
UpperLetters ==
    <<"A", "B", "C", "D", "E", "F", "G", "H", "I", "J", "K", "L", "M", "N",
      "O", "P", "Q", "R", "S", "T", "U", "V", "W", "X", "Y", "Z">>

IsDigit(c) == \E d \in 1..Len(Digits) : Digits[d] = c
DigitValue(c) == (CHOOSE d \in 1..Len(Digits) : Digits[d] = c) - 1
IsLower(c) == \E k \in 1..Len(LowerLetters) : LowerLetters[k] = c
IsUpper(c) == \E k \in 1..Len(UpperLetters) : UpperLetters[k] = c
\* re.sub(r"[^a-zA-Z]", "", s) keeps exactly these characters.
IsAlpha(c) == IsLower(c) \/ IsUpper(c)
ToUpper(c) ==
    IF IsLower(c) THEN UpperLetters[CHOOSE k \in 1..Len(LowerLetters) : LowerLetters[k] = c]
    ELSE c
ToLower(c) ==
    IF IsUpper(c) THEN LowerLetters[CHOOSE k \in 1..Len(UpperLetters) : UpperLetters[k] = c]
    ELSE c

\* str.capitalize()
Capitalize(w) ==
    IF w = <<>> THEN <<>>
    ELSE <<ToUpper(w[1])>> \o [k \in 1..(Len(w) - 1) |-> ToLower(w[k + 1])]

LettersOnly(s) == SelectSeq(s, IsAlpha)

\* "".join(parts)
RECURSIVE Concat(_)
Concat(parts) == IF parts = <<>> THEN <<>> ELSE parts[1] \o Concat(Tail(parts))

\* str(n) for n >= 0
RECURSIVE StrOfNat(_)
StrOfNat(n) ==
    IF n < 10 THEN <<Digits[n + 1]>>
    ELSE StrOfNat(n \div 10) \o <<Digits[(n % 10) + 1]>>

\* _extract_year: the first four consecutive digits, as an integer; <<>> is None.
ExtractYear(publication_date) ==
    LET d == publication_date
        at == {k \in 1..(Len(d) - 3) : \A j \in 0..3 : IsDigit(d[k + j])}
    IN  IF at = {} THEN <<>>
        ELSE LET k == CHOOSE x \in at : \A y \in at : x <= y
             IN  <<1000 * DigitValue(d[k]) + 100 * DigitValue(d[k + 1])
                   + 10 * DigitValue(d[k + 2]) + DigitValue(d[k + 3])>>

UnknownPaper == <<"U", "n", "k", "n", "o", "w", "n", "P", "a", "p", "e", "r">>

\* _generate_unique_id(title, authors, year)
GenerateUniqueId(title, authors, year) ==
    LET authorPart ==
            IF authors # <<>>
            THEN LET ws == Split(authors[1])
                 IN  <<LettersOnly(ws[Len(ws)])>>
            ELSE <<>>
        titlePart ==
            IF title # <<>>
            THEN LET ws == Split(title)
                     two == SubSeq(ws, 1, Min(2, Len(ws)))
                 IN  <<LettersOnly(Concat([k \in 1..Len(two) |-> Capitalize(two[k])]))>>
            ELSE <<>>
        yearPart ==
            IF year # <<>> /\ year[1] # 0 THEN <<StrOfNat(year[1])>> ELSE <<>>
        joined == Concat(authorPart \o titlePart \o yearPart)
    IN  IF joined = <<>> THEN UnknownPaper ELSE joined

----------------------------------------------------------------------------
(* Inputs of ingestion *)

\* Content of <stem>.md in the preprocessed directory: p1.md ends in a
\* references section, p2.md has none.
MarkdownText(p) ==
    IF p = <<"p", "1">>
    THEN <<"a", "b", "a", "\n", "R", "e", "f", "e", "r", "e", "n", "c", "e", "s", "\n", "b">>
    ELSE <<"b", "a">>

\* A <stem>_metadata.json written by preprocessing.
MetaA ==
    [exists |-> TRUE, title |-> <<"a", "b", " ", "b", "a">>,
     authors |-> << <<"a", " ", "b">> >>, publication_date |-> <<"2", "0", "2", "4">>]

\* What ingest_file may find next to the markdown file: no metadata file, or one.
MetaChoices == {NoFile, MetaA}

\* metadata.get("title", paper_id), metadata.get("authors", []),
\* metadata.get("publication_date")
MetaTitle(m, paper_id) == IF m.exists THEN m.title ELSE paper_id
MetaAuthors(m) == IF m.exists THEN m.authors ELSE <<>>
MetaDate(m) == IF m.exists THEN m.publication_date ELSE <<>>

\* The chunking parameters of the ingest requests.
IngestChunking == [size |-> 2, overlap |-> 1]

\* _chunk_by_characters as a function: the loop of ChunkByCharactersIter run to
\* its end (called with overlap < size only).
RECURSIVE CharLoop(_, _, _, _, _)
CharLoop(text, size, overlap, start, chunks) ==
    IF start < Len(text)
    THEN LET end == start + size
             more == Append(chunks, PySlice(text, start, end))
         IN  IF CharBreak(text, end) THEN more
             ELSE CharLoop(text, size, overlap, NextStart(start, size, overlap), more)
    ELSE chunks

ChunkByCharacters(text, size, overlap) ==
    IF Len(text) <= size THEN <<text>> ELSE CharLoop(text, size, overlap, 0, <<>>)

----------------------------------------------------------------------------
(* IngestionService._split_references *)

\* (?:References|Bibliography|Works Cited|Literature Cited) under re.IGNORECASE,
\* in lower case.
ReferenceKeywords ==
    <<<<"r", "e", "f", "e", "r", "e", "n", "c", "e", "s">>,
      <<"b", "i", "b", "l", "i", "o", "g", "r", "a", "p", "h", "y">>,
      <<"w", "o", "r", "k", "s", " ", "c", "i", "t", "e", "d">>,
      <<"l", "i", "t", "e", "r", "a", "t", "u", "r", "e", " ", "c", "i", "t", "e", "d">>>>

\* The number of consecutive "#" from position i on.
RECURSIVE HashRun(_, _)
HashRun(text, i) ==
    IF i > Len(text) \/ text[i] # "#" THEN 0 ELSE 1 + HashRun(text, i + 1)

\* The number of consecutive whitespace characters from position i on.
RECURSIVE SpaceRun(_, _)
SpaceRun(text, i) ==
    IF i > Len(text) \/ ~IsSpace(text[i]) THEN 0 ELSE 1 + SpaceRun(text, i + 1)

\* A literal (lower case) matched case-insensitively at position i.
LiteralAt(text, i, literal) ==
    /\ i >= 1
    /\ i + Len(literal) - 1 <= Len(text)
    /\ \A m \in 1..Len(literal) : ToLower(text[i + m - 1]) = literal[m]

\* "^" under re.MULTILINE: the start of the text or just after a newline.
AtLineStart(text, i) == i = 1 \/ (i > 1 /\ i <= Len(text) + 1 /\ text[i - 1] = "\n")

\* "\s*$" under re.MULTILINE: some run of whitespace from i on ends at the end
\* of the text or just before a newline.
WhitespaceToLineEnd(text, i) ==
    \E q \in i..(Len(text) + 1) :
        /\ \A m \in i..(q - 1) : IsSpace(text[m])
        /\ q = Len(text) + 1 \/ text[q] = "\n"

\* "(?:#{1,3}\s+|\*\*)?": the positions the keyword may start at for a match
\* starting at i. After h hashes the next character must be whitespace and the
\* keyword starts with a letter, so h and the whitespace run are the whole runs.
KeywordStarts(text, i) ==
    LET h == HashRun(text, i)
        w == SpaceRun(text, i + h)
    IN  {i}
        \cup (IF LiteralAt(text, i, <<"*", "*">>) THEN {i + 2} ELSE {})
        \cup (IF h \in 1..3 /\ w >= 1 THEN {i + h + w} ELSE {})

\* The whole pattern matched from position i.
HeadingAt(text, i) ==
    /\ AtLineStart(text, i)
    /\ \E j \in KeywordStarts(text, i), n \in 1..Len(ReferenceKeywords) :
          LET kw == ReferenceKeywords[n]
              e == j + Len(kw)
          IN  /\ LiteralAt(text, j, kw)
              /\ \/ (LiteralAt(text, e, <<"*", "*">>) /\ WhitespaceToLineEnd(text, e + 2))
                 \/ WhitespaceToLineEnd(text, e)

\* str.rstrip()
RECURSIVE RStrip(_)
RStrip(s) ==
    IF s = <<>> \/ ~IsSpace(s[Len(s)]) THEN s ELSE RStrip(SubSeq(s, 1, Len(s) - 1))

\* "body = text[:match.start()].rstrip()"
SplitBody_Uncut(text, start) == text
SplitBody(text, start) == RStrip(PySlice(text, 0, start))

\* _split_references: pattern.search finds the leftmost match; match.start() is
\* a 0-based offset.
SplitReferences(text) ==
    LET at == {i \in 1..Len(text) : HeadingAt(text, i)}
    IN  IF at # {}
        THEN LET start == (CHOOSE i \in at : \A k \in at : i <= k) - 1
             IN  [body |-> SplitBody(text, start),
                  references |-> PySlice(text, start, Len(text))]
        ELSE [body |-> text, references |-> <<>>]

\* Lines a markdown text is made of.
MarkdownLines ==
    {<<"a", " ", "b">>,
     <<"R", "e", "f", "e", "r", "e", "n", "c", "e", "s">>,
     <<"#", "#", " ", "r", "e", "f", "e", "r", "e", "n", "c", "e", "s">>,
     <<"*", "*", "B", "i", "b", "l", "i", "o", "g", "r", "a", "p", "h", "y", "*", "*">>,
     <<"#", "#", "#", "#", " ", "R", "e", "f", "e", "r", "e", "n", "c", "e", "s">>,
     <<"s", "e", "e", " ", "R", "e", "f", "e", "r", "e", "n", "c", "e", "s">>,
     <<"W", "o", "r", "k", "s", " ", "C", "i", "t", "e", "d", " ", " ">>,
     <<"#">>,
     <<>>,
     <<"R", "e", "f", "e", "r", "e", "n", "c", "e", "s", ":">>,
     <<"L", "i", "t", "e", "r", "a", "t", "u", "r", "e", " ", "C", "i", "t", "e", "d">>}

\* "\n".join(lines)
RECURSIVE JoinLines(_)
JoinLines(lines) ==
    IF lines = <<>> THEN <<>>
    ELSE IF Len(lines) = 1 THEN lines[1]
    ELSE lines[1] \o <<"\n">> \o JoinLines(Tail(lines))

RECURSIVE LineListsOfLen(_)
LineListsOfLen(n) ==
    IF n = 0 THEN {<<>>}
    ELSE {Append(l, x) : l \in LineListsOfLen(n - 1), x \in MarkdownLines}

\* The chunking parameters of the texts split on their own.
SplitChunking == [size |-> 6, overlap |-> 2]

SplitInit ==
    /\ chunker = ChunkerIdle
    /\ batch = BatchIdle
    /\ ingestLoop = IngestLoopIdle
    /\ embedder = EmbedderIdle
    /\ cleaner = CleanerIdle
    /\ fusion = FusionIdle
    /\ prep = PrepIdle
    /\ dims = DimsIdle
    /\ SysInit
    /\ \E n \in 0..MaxLines :
         \E lines \in LineListsOfLen(n) :
            splitter = [SplitterIdle EXCEPT !.pc = "called", !.lines = lines,
                                            !.text = JoinLines(lines)]

\* ingest_file: "body_text, references = self._split_references(text_content)"
\* and "text_chunks = self.chunking_service.chunk_text(body_text)".
IngestSplit ==
    /\ splitter.pc = "called"
    /\ LET s == SplitReferences(splitter.text)
       IN  splitter' = [splitter EXCEPT
                          !.pc = "chunked",
                          !.body = s.body,
                          !.references = s.references,
                          !.chunks = ChunkByCharacters(s.body, SplitChunking.size,
                                                       SplitChunking.overlap)]
    /\ UNCHANGED <<chunker, batch, ingestLoop, embedder, cleaner, fusion, prep, dims, sysVars>>

\* ingest_file: paper_meta["references"] written to metadata/<paper_id>.json.
IngestStoreReferences ==
    /\ splitter.pc = "chunked"
    /\ splitter' = [splitter EXCEPT !.pc = "done", !.stored = splitter.references]
    /\ UNCHANGED <<chunker, batch, ingestLoop, embedder, cleaner, fusion, prep, dims, sysVars>>

SplitNext ==
    \/ IngestSplit
    \/ IngestStoreReferences

SplitSpec == SplitInit /\ [][SplitNext]_vars

\* The lines of MarkdownLines that are references headings: a keyword in any
\* case, alone on its line but for 1-3 leading "#" or bold markers and trailing
\* whitespace.
HeadingLines ==
    {<<"R", "e", "f", "e", "r", "e", "n", "c", "e", "s">>,
     <<"#", "#", " ", "r", "e", "f", "e", "r", "e", "n", "c", "e", "s">>,
     <<"*", "*", "B", "i", "b", "l", "i", "o", "g", "r", "a", "p", "h", "y", "*", "*">>,
     <<"W", "o", "r", "k", "s", " ", "C", "i", "t", "e", "d", " ", " ">>,
     <<"L", "i", "t", "e", "r", "a", "t", "u", "r", "e", " ", "C", "i", "t", "e", "d">>}

\* The first heading line of the text being split, 0 when there is none.
FirstHeadingLine ==
    LET hs == {k \in 1..Len(splitter.lines) : splitter.lines[k] \in HeadingLines}
    IN  IF hs = {} THEN 0 ELSE CHOOSE k \in hs : \A j \in hs : k <= j

\* The number of characters of the text before its line k.
LineOffset(k) ==
    IF k = 1 THEN 0 ELSE Len(JoinLines(SubSeq(splitter.lines, 1, k - 1))) + 1

\* The chunks are the sliding windows over s, reaching its end.
ChunksAreWindowsOf(s) ==
    LET cs == splitter.chunks
        step == SplitChunking.size - SplitChunking.overlap
    IN  /\ cs # <<>>
        /\ \A k \in 1..Len(cs) :
              cs[k] = SubSeq(s, (k - 1) * step + 1,
                             Min((k - 1) * step + SplitChunking.size, Len(s)))
        /\ (Len(cs) - 1) * step + Len(cs[Len(cs)]) = Len(s)

----------------------------------------------------------------------------
(* Collections: IngestionService.create_collection, DELETE /collections/{id} *)

\* No request is being answered.
Quiet == rag.pc = "idle" /\ qry.pc = "idle" /\ crt.pc = "idle"

\* "if collection_path.exists(): raise ValueError(...)"
CollectionPathExists_Never(exists) == FALSE
CollectionPathExists(exists) == exists

\* POST /ingest/create: a taken id is refused with 409 (ValueError); on a free
\* id the directories are made, the embedding dimension probed, the Qdrant
\* collection created and collection_info.json written.
CreateCollection ==
    /\ Quiet
    /\ \E search_type \in {"dense", "hybrid"} :
         LET called == [CrtIdle EXCEPT !.pc = "responded", !.search_type = search_type]
         IN  IF CollectionPathExists(dirExists)
             THEN /\ crt' = [called EXCEPT !.status = 409, !.taken = TRUE]
                  /\ UNCHANGED <<dirExists, collectionInfo, index>>
             ELSE IF dirExists \/ index # "none"
             THEN \* mkdir or Qdrant refuses what exists already: no info file.
                  /\ crt' = [called EXCEPT
                               !.status = 500,
                               !.probe_calls = IF dirExists THEN 0 ELSE 1,
                               !.index_create_calls = IF dirExists THEN 0 ELSE 1]
                  /\ dirExists' = TRUE
                  /\ UNCHANGED <<collectionInfo, index>>
             ELSE /\ crt' = [called EXCEPT !.status = 200, !.probe_calls = 1,
                                           !.index_create_calls = 1]
                  /\ dirExists' = TRUE
                  /\ index' = search_type
                  /\ collectionInfo' = search_type
    /\ UNCHANGED <<toolVars, points, nextId, metadataFiles, ingest, rag, qry>>

\* The response has been sent.
CreateReturn ==
    /\ crt.pc = "responded"
    /\ crt' = CrtIdle
    /\ UNCHANGED <<toolVars, dirExists, collectionInfo, index, points, nextId,
                   metadataFiles, ingest, rag, qry>>

\* delete_collection (Qdrant) followed by delete_collection_files (rmtree).
DeleteCollection ==
    /\ Quiet
    /\ dirExists \/ index # "none"
    /\ index' = "none"
    /\ points' = <<>>
    /\ dirExists' = FALSE
    /\ collectionInfo' = "none"
    /\ metadataFiles' = [p \in PaperIds |-> NoFile]
    /\ UNCHANGED <<toolVars, crt, nextId, ingest, rag, qry>>

----------------------------------------------------------------------------
(* IngestionService.ingest_file *)

\* _is_hybrid_collection
IsHybridCollection == collectionInfo = "hybrid"

\* POST /ingest/{collection_id}/file up to the Qdrant upsert: read the files,
\* derive paper_id and unique_id, chunk, embed (dense, and sparse when hybrid).
\* An exception of the embedding backend ends the call (500).
IngestCall ==
    /\ Quiet
    /\ ingest.pc = "idle"
    /\ dirExists
    /\ \E p \in PaperIds, m \in MetaChoices :
         LET split == SplitReferences(MarkdownText(p))
             chunks == ChunkByCharacters(split.body, IngestChunking.size,
                                         IngestChunking.overlap)
         IN  /\ nextId + Len(chunks) <= MaxPoints
             /\ \E fails \in {{}} \cup {{k} : k \in 1..Len(chunks)} :
                  LET e == GenerateEmbeddingsBatch(chunks, fails)
                  IN  ingest' =
                        [pc |-> IF e.raised THEN "failed" ELSE "upsert",
                         paper_id |-> p,
                         unique_id |-> GenerateUniqueId(MetaTitle(m, p), MetaAuthors(m),
                                                        ExtractYear(MetaDate(m))),
                         metadata |-> m, chunks |-> chunks,
                         references |-> split.references,
                         sparse |-> IF e.raised THEN FALSE ELSE IsHybridCollection,
                         embed_fails |-> fails, embeddings |-> e.embeddings,
                         upserted |-> 0]
    /\ UNCHANGED <<toolVars, crt, dirExists, collectionInfo, index, points, nextId,
                   metadataFiles, rag, qry>>

\* The endpoint answers 500 for a call that raised.
IngestFailed ==
    /\ ingest.pc = "failed"
    /\ ingest' = IngestIdle
    /\ UNCHANGED <<toolVars, crt, dirExists, collectionInfo, index, points, nextId,
                   metadataFiles, rag, qry>>

\* "id=str(uuid.uuid4())": an id no earlier point has; n ids were handed out.
PointId_ChunkIndex(n, k) == k
PointId(n, k) == n + k

\* client.upsert: a point whose id is stored already replaces the stored point,
\* any other point is added.
RECURSIVE QdrantUpsert(_, _)
QdrantUpsert(stored, new) ==
    IF new = <<>> THEN stored
    ELSE LET pt == new[1]
             at == {k \in 1..Len(stored) : stored[k].id = pt.id}
         IN  QdrantUpsert(IF at = {} THEN Append(stored, pt)
                          ELSE [k \in 1..Len(stored) |->
                                   IF k \in at THEN pt ELSE stored[k]],
                          Tail(new))

\* upsert_chunks: one point with a fresh id per (chunk, vector) pair of
\* zip(chunks, vectors). Qdrant raises when the collection is gone or has no
\* sparse vector configured for a sparse vector sent.
IngestUpsert ==
    /\ Quiet
    /\ ingest.pc = "upsert"
    /\ IF index = "none" \/ (ingest.sparse /\ index # "hybrid")
       THEN /\ ingest' = IngestIdle
            /\ UNCHANGED <<points, nextId>>
       ELSE LET n == Min(Len(ingest.chunks), Len(ingest.embeddings))
            IN  /\ points' = QdrantUpsert(points,
                      [k \in 1..n |->
                          [id |-> PointId(nextId, k), paper_id |-> ingest.paper_id,
                           unique_id |-> ingest.unique_id,
                           chunk_text |-> ingest.chunks[k],
                           chunk_index |-> k - 1, sparse |-> ingest.sparse,
                           vector |-> ingest.embeddings[k]]])
                /\ nextId' = nextId + n
                /\ ingest' = [ingest EXCEPT !.pc = "write_meta", !.upserted = n]
    /\ UNCHANGED <<toolVars, crt, dirExists, collectionInfo, index, metadataFiles,
                   rag, qry>>

\* The metadata/<paper_id>.json written after the upsert (mkdir with parents).
IngestWriteMeta ==
    /\ Quiet
    /\ ingest.pc = "write_meta"
    /\ dirExists' = TRUE
    /\ metadataFiles' = [metadataFiles EXCEPT ![ingest.paper_id] =
                            [exists |-> TRUE, paper_id |-> ingest.paper_id,
                             unique_id |-> ingest.unique_id,
                             references |-> ingest.references,
                             source |-> ingest.metadata]]
    /\ ingest' = IngestIdle
    /\ UNCHANGED <<toolVars, crt, collectionInfo, index, points, nextId, rag, qry>>

\* MetadataService.get_paper_metadata / _load_from_json on an existing file.
LoadFromJson(file, paper_id) ==
    [paper_id |-> file.paper_id,
     title |-> IF file.source.exists THEN file.source.title
               ELSE <<"U", "n", "t", "i", "t", "l", "e", "d">>,
     authors |-> MetaAuthors(file.source),
     year |-> ExtractYear(MetaDate(file.source)),
     unique_id |-> file.unique_id]

----------------------------------------------------------------------------
(* QdrantService.search *)

Range(q) == {q[k] : k \in 1..Len(q)}

\* The sequences of k distinct elements of S.
RECURSIVE InjSeqs(_, _)
InjSeqs(S, k) ==
    IF k = 0 THEN {<<>>}
    ELSE UNION {{Append(q, x) : x \in S \ Range(q)} : q \in InjSeqs(S, k - 1)}

NoFilter == [any |-> {}, given |-> FALSE]

\* "if paper_ids:" builds a MatchAny filter on paper_id; None and an empty list
\* build none.
QueryFilter(paper_ids) ==
    IF paper_ids # {} THEN [any |-> paper_ids, given |-> TRUE] ELSE NoFilter

\* "if use_hybrid and has_sparse and sparse_vector" chooses the RRF fusion query.
SearchMode(use_hybrid, sparse_given) ==
    IF use_hybrid /\ index = "hybrid" /\ sparse_given THEN "fusion" ELSE "dense"

\* The query_filter argument of the query_points call of each branch.
BranchFilter_DenseOnly(mode, query_filter) ==
    IF mode = "fusion" THEN NoFilter ELSE query_filter
BranchFilter(mode, query_filter) == query_filter

\* The stored points a filter lets through (MatchAny on the payload's paper_id).
Matching(filter) ==
    {k \in 1..Len(points) : ~filter.given \/ points[k].paper_id \in filter.any}

\* What search can return. The ranking is the index's: any order of the points
\* the filter lets through, cut at `limit`. Every point has a dense vector, and
\* Qdrant applies the filter of a fusion query to its prefetches, so dense and
\* fusion queries both return `limit` points when that many pass the filter.
SearchOutcomes(limit, paper_ids, sparse_given, use_hybrid) ==
    IF index = "none"
    THEN {[raised |-> TRUE, mode |-> "none", hits |-> <<>>]}
    ELSE LET mode == SearchMode(use_hybrid, sparse_given)
             match == Matching(BranchFilter(mode, QueryFilter(paper_ids)))
         IN  {[raised |-> FALSE, mode |-> mode, hits |-> h] :
                 h \in InjSeqs(match, Min(limit, Cardinality(match)))}

----------------------------------------------------------------------------
(* POST /collections/{collection_id}/rag *)

QueryTexts == {<<>>, <<" ">>, <<"a">>}

Requests ==
    [query_text : QueryTexts, use_hybrid : BOOLEAN, paper_ids : SUBSET PaperIds,
     limit : 1..MaxLimit]

\* What the LLM may reply: an answer, or the cannot-answer phrase.
LLMOutputs == {"answer", "sorry, i do not know the answer for this"}
CannotAnswerLower == "sorry, i do not know the answer for this"
BroadenMessage == "try broadening your query"

\* "if not query_text or not query_text.strip()"
QueryTextInvalid_NoStrip(text) == text = <<>>
QueryTextInvalid(text) == text = <<>> \/ \A k \in 1..Len(text) : IsSpace(text[k])

\* collection.search_type: info.get("search_type", "dense")
CollectionSearchType == IF collectionInfo = "none" THEN "dense" ELSE collectionInfo

\* "if rag_request.use_hybrid and collection.search_type == 'hybrid'"
WantsSparse_AnyCollection(req) == req.use_hybrid
WantsSparse(req) == req.use_hybrid /\ CollectionSearchType = "hybrid"

\* The result dicts built from the hits.
FormatResults(hits) ==
    [k \in 1..Len(hits) |->
        [point |-> points[hits[k]].id, paper_id |-> points[hits[k]].paper_id,
         unique_id |-> points[hits[k]].unique_id,
         chunk_text |-> points[hits[k]].chunk_text]]

\* paper_citation_keys: paper_id -> unique_id of the last result of that paper.
PaperCitationKeys(results) ==
    [p \in {results[k].paper_id : k \in 1..Len(results)} |->
        LET last == CHOOSE k \in 1..Len(results) :
                        /\ results[k].paper_id = p
                        /\ \A j \in 1..Len(results) : results[j].paper_id = p => j <= k
        IN  results[last].unique_id]

\* The iteration order of paper_citation_keys: papers by first appearance.
RECURSIVE FirstSeen(_, _)
FirstSeen(results, acc) ==
    IF results = <<>> THEN acc
    ELSE FirstSeen(Tail(results),
                   IF results[1].paper_id \in Range(acc) THEN acc
                   ELSE Append(acc, results[1].paper_id))

\* paper_metadata_map: the papers whose metadata lookup returned a record.
PaperMetadataMap(pck) ==
    [p \in {q \in DOMAIN pck : metadataFiles[q].exists} |->
        LoadFromJson(metadataFiles[p], p)]

\* "citation_key = r['unique_id'] or r['paper_id']" of a context part.
CitationKey(r) == IF r.unique_id # <<>> THEN r.unique_id ELSE r.paper_id

\* "valid_keys = sorted(set(paper_citation_keys.values()))", as a set.
ValidKeys(pck) == {pck[p] : p \in DOMAIN pck}

\* "if results:" guards prompt assembly and the generate call.
ShouldGenerate_Always(results) == TRUE
ShouldGenerate(results) == results # <<>>

\* The key a paper's citation entry is stored under: "citations[unique_id]".
CitationEntryKey_FromMetadata(unique_id, meta) == meta.unique_id
CitationEntryKey(unique_id, meta) == unique_id

\* CitationService.format_apa / format_bibtex: pure functions of the metadata.
FormatApa(meta) ==
    [style |-> "apa", authors |-> meta.authors, year |-> meta.year,
     title |-> meta.title]
FormatBibtex(meta) ==
    [style |-> "bibtex", key |-> meta.unique_id, authors |-> meta.authors,
     year |-> meta.year, title |-> meta.title]

\* The entry of a paper in the citations dict.
CitationEntry_NoFormats(meta) ==
    [unique_id |-> meta.unique_id, title |-> meta.title, authors |-> meta.authors,
     year |-> meta.year]
CitationEntry(meta) ==
    [unique_id |-> meta.unique_id, title |-> meta.title, authors |-> meta.authors,
     year |-> meta.year, apa |-> FormatApa(meta), bibtex |-> FormatBibtex(meta)]

\* The citations dict: one entry per paper with metadata, later papers replacing
\* earlier entries under the same key.
RECURSIVE BuildCitations(_, _, _, _)
BuildCitations(order, pck, pmm, acc) ==
    IF order = <<>> THEN acc
    ELSE LET p == order[1]
         IN  BuildCitations(Tail(order), pck, pmm,
                IF p \in DOMAIN pmm
                THEN (CitationEntryKey(pck[p], pmm[p]) :> CitationEntry(pmm[p])) @@ acc
                ELSE acc)

\* Refusal handling: the cannot-answer phrase (case-insensitive) is replaced.
FinalAnswer(llm) == IF llm = CannotAnswerLower THEN BroadenMessage ELSE llm

\* The handler from the dense embedding on, for a request that passed validation
\* and whose collection directory exists.
RagRespond(req, out, llm) ==
    LET sparse == WantsSparse(req)
        called == [RagIdle EXCEPT !.pc = "responded", !.req = req,
                                  !.embed_calls = 1,
                                  !.sparse_calls = IF sparse THEN 1 ELSE 0,
                                  !.asked_fusion = sparse]
    IN  IF out.raised
        THEN [called EXCEPT !.status = 500, !.search = "raised"]
        ELSE LET results == FormatResults(out.hits)
                 pck == PaperCitationKeys(results)
                 pmm == PaperMetadataMap(pck)
                 gen == ShouldGenerate(results)
             IN  [called EXCEPT
                    !.status = 200,
                    !.search = "returned",
                    !.search_mode = out.mode,
                    !.hits = out.hits,
                    !.results = results,
                    !.prompt_built = gen,
                    !.tags = IF gen THEN [k \in 1..Len(results) |-> CitationKey(results[k])]
                             ELSE <<>>,
                    !.valid_keys = IF gen THEN ValidKeys(pck) ELSE {},
                    !.generate_calls = IF gen THEN 1 ELSE 0,
                    !.answer = IF gen THEN FinalAnswer(llm) ELSE "",
                    !.citations = BuildCitations(FirstSeen(results, <<>>), pck, pmm, <<>>)]

RagQuery ==
    /\ Quiet
    /\ \E req \in Requests :
         IF QueryTextInvalid(req.query_text)
         THEN rag' = [RagIdle EXCEPT !.pc = "responded", !.req = req, !.status = 400]
         ELSE IF ~dirExists
         THEN rag' = [RagIdle EXCEPT !.pc = "responded", !.req = req, !.status = 404]
         ELSE \E out \in SearchOutcomes(req.limit, req.paper_ids, WantsSparse(req),
                                        WantsSparse(req)),
                 llm \in LLMOutputs :
                rag' = RagRespond(req, out, llm)
    /\ UNCHANGED <<toolVars, crt, dirExists, collectionInfo, index, points, nextId,
                   metadataFiles, ingest, qry>>

\* The response has been sent.
RagReturn ==
    /\ rag.pc = "responded"
    /\ rag' = RagIdle
    /\ UNCHANGED <<toolVars, crt, dirExists, collectionInfo, index, points, nextId,
                   metadataFiles, ingest, qry>>

----------------------------------------------------------------------------
(* query_collection (api/query.py) *)

\* QueryRequest (models/query.py) has no `limit` field: evaluating
\* query_request.limit for the search call raises after the embedding was made,
\* and the search is not reached.
QueryCollection ==
    /\ Quiet
    /\ \E req \in Requests :
         IF QueryTextInvalid(req.query_text)
         THEN qry' = [QryIdle EXCEPT !.pc = "responded", !.req = req, !.status = 400]
         ELSE IF ~dirExists
         THEN qry' = [QryIdle EXCEPT !.pc = "responded", !.req = req, !.status = 404]
         ELSE qry' = [QryIdle EXCEPT !.pc = "responded", !.req = req, !.status = 500,
                                     !.embed_calls = 1]
    /\ UNCHANGED <<toolVars, crt, dirExists, collectionInfo, index, points, nextId,
                   metadataFiles, ingest, rag>>

QueryReturn ==
    /\ qry.pc = "responded"
    /\ qry' = QryIdle
    /\ UNCHANGED <<toolVars, crt, dirExists, collectionInfo, index, points, nextId,
                   metadataFiles, ingest, rag>>

----------------------------------------------------------------------------

Init ==
    /\ chunker = ChunkerIdle
    /\ batch = BatchIdle
    /\ ingestLoop = IngestLoopIdle
    /\ embedder = EmbedderIdle
    /\ splitter = SplitterIdle
    /\ cleaner = CleanerIdle
    /\ fusion = FusionIdle
    /\ prep = PrepIdle
    /\ dims = DimsIdle
    /\ SysInit

Next ==
    \/ CreateCollection
    \/ CreateReturn
    \/ DeleteCollection
    \/ IngestCall
    \/ IngestFailed
    \/ IngestUpsert
    \/ IngestWriteMeta
    \/ RagQuery
    \/ RagReturn
    \/ QueryCollection
    \/ QueryReturn

Spec == Init /\ [][Next]_vars

----------------------------------------------------------------------------
(* Properties of rag_query and query_collection *)

Responded == rag.pc = "responded"

ResultKeys == {CitationKey(rag.results[k]) : k \in 1..Len(rag.results)}

\* C1: citation vocabulary closure: whenever a prompt is assembled, the keys
\* listed as the only valid citation keys are exactly the keys tagged on the
\* excerpts of the prompt.
C1_VocabularyClosure ==
    (Responded /\ rag.prompt_built) => rag.valid_keys = Range(rag.tags)

\* C2 as stated: no orphan keys in either direction: the keys of the returned
\* citations map are exactly the keys of the prompt's allowed-citation list.
C2_NoOrphanKeys_AsStated ==
    (Responded /\ rag.prompt_built) => rag.valid_keys = DOMAIN rag.citations

\* The papers among the results whose last result carries key u.
PapersLastTagged(u) ==
    {p \in PaperIds :
        \E k \in 1..Len(rag.results) :
            /\ rag.results[k].paper_id = p
            /\ rag.results[k].unique_id = u
            /\ \A j \in (k + 1)..Len(rag.results) : rag.results[j].paper_id # p}

\* C2 amended: every key of the returned citations map is in the prompt's
\* allowed-citation list, and a key of the allowed list is in the map exactly
\* when the metadata lookup resolves for a retrieved paper listed under that key.
C2_CitationsWithinAllowed ==
    (Responded /\ rag.prompt_built) =>
        /\ DOMAIN rag.citations \subseteq rag.valid_keys
        /\ \A u \in rag.valid_keys :
             u \in DOMAIN rag.citations
                <=> \E p \in PapersLastTagged(u) : metadataFiles[p].exists

\* A response whose allowed list names a key with no citation entry, next to a
\* key that has one.
C2_Witness ==
    /\ Responded
    /\ rag.prompt_built
    /\ DOMAIN rag.citations # {}
    /\ rag.valid_keys \ DOMAIN rag.citations # {}

\* C3: when the metadata lookup of a retrieved paper returns nothing, its
\* citation key is absent from the citations map, its chunks are still in the
\* results (and the prompt), and the map's keys are among the results' keys.
C3_MissingMetadataKeepsResults ==
    (Responded /\ rag.status = 200) =>
        /\ \A k \in 1..Len(rag.results) :
             ~metadataFiles[rag.results[k].paper_id].exists
                => CitationKey(rag.results[k]) \notin DOMAIN rag.citations
        /\ Len(rag.results) = Len(rag.hits)
        /\ rag.prompt_built => Len(rag.tags) = Len(rag.results)
        /\ DOMAIN rag.citations \subseteq ResultKeys

\* C4: when the search returns no chunks, generate is never called and the
\* response is an empty answer, an empty citations map and an empty results
\* list, with no error.
C4_ZeroResults ==
    (Responded /\ rag.search = "returned" /\ rag.hits = <<>>) =>
        /\ rag.status = 200
        /\ rag.generate_calls = 0
        /\ ~rag.prompt_built
        /\ rag.answer = ""
        /\ DOMAIN rag.citations = {}
        /\ rag.results = <<>>

\* A search over a non-empty index whose paper filter excludes every chunk.
C4_Witness ==
    /\ Responded
    /\ rag.search = "returned"
    /\ rag.hits = <<>>
    /\ points # <<>>
    /\ rag.req.paper_ids # {}

PastChecks == rag.status \notin {400, 404}

\* C8: the dense query embedding is always computed; the sparse embedding is
\* computed and fusion asked of the index if and only if use_hybrid is set and
\* the collection's stored search_type is "hybrid"; use_hybrid against a
\* dense-only collection runs a plain dense search without error.
C8_HybridFallback ==
    Responded =>
        /\ PastChecks => rag.embed_calls = 1
        /\ rag.sparse_calls = 1
              <=> (PastChecks /\ rag.req.use_hybrid /\ collectionInfo = "hybrid")
        /\ rag.sparse_calls \in {0, 1}
        /\ rag.asked_fusion
              <=> (PastChecks /\ rag.req.use_hybrid /\ collectionInfo = "hybrid")
        /\ (PastChecks /\ rag.req.use_hybrid /\ collectionInfo = "dense"
                       /\ index = "dense") =>
              /\ rag.status = 200
              /\ rag.search_mode = "dense"
              /\ rag.sparse_calls = 0

\* use_hybrid=true answered from a dense-only collection that holds chunks.
C8_Witness ==
    /\ Responded
    /\ rag.req.use_hybrid
    /\ collectionInfo = "dense"
    /\ rag.status = 200
    /\ rag.search_mode = "dense"
    /\ rag.results # <<>>

BlankText(text) == \A k \in 1..Len(text) : text[k] = " "

\* C9: a request whose query_text is empty or whitespace-only is rejected with
\* 400 before any embedding, search or generate call, whether or not the
\* collection exists (rag_query and query_collection).
C9_ValidationFirst ==
    /\ (Responded /\ BlankText(rag.req.query_text)) =>
          /\ rag.status = 400
          /\ rag.embed_calls = 0
          /\ rag.sparse_calls = 0
          /\ rag.search = "not_called"
          /\ rag.generate_calls = 0
    /\ (qry.pc = "responded" /\ BlankText(qry.req.query_text)) =>
          /\ qry.status = 400
          /\ qry.embed_calls = 0
          /\ qry.search = "not_called"

\* A whitespace-only query rejected on an existing collection that holds chunks.
C9_Witness ==
    /\ Responded
    /\ rag.req.query_text = <<" ">>
    /\ rag.status = 400
    /\ dirExists
    /\ points # <<>>

----------------------------------------------------------------------------
(* Properties of collection creation and ingestion *)

\* C13: creating a collection whose id is taken fails with already-exists
\* (HTTP 409) and leaves the existing collection unchanged: directory,
\* collection_info.json, index collection and its points are not modified and
\* no embedding probe or index-create call is made.
C13_CreateOnTakenId ==
    [][(crt.pc = "idle" /\ crt'.pc = "responded" /\ dirExists) =>
          /\ crt'.status = 409
          /\ crt'.probe_calls = 0
          /\ crt'.index_create_calls = 0
          /\ UNCHANGED <<dirExists, collectionInfo, index, points, metadataFiles>>]_vars

\* A create request refused on a collection that holds chunks and has another
\* search type than the one asked for.
C13_Witness ==
    /\ crt.pc = "responded"
    /\ crt.taken
    /\ crt.status = 409
    /\ collectionInfo \notin {"none", crt.search_type}
    /\ points # <<>>

\* C14: all-or-nothing batch embedding: when the embedding backend fails on a
\* text of the batch, generate_embeddings_batch returns no vectors and the
\* enclosing ingest_file upserts nothing; an upsert always has one vector per
\* chunk, each the embedding of its own chunk text.
C14_AllOrNothingEmbedding ==
    /\ ingest.pc = "failed" => (ingest.embeddings = <<>> /\ ingest.upserted = 0)
    /\ ingest.pc \in {"upsert", "write_meta"} =>
          /\ ingest.embed_fails = {}
          /\ Len(ingest.embeddings) = Len(ingest.chunks)
    /\ ingest.pc = "write_meta" => ingest.upserted = Len(ingest.chunks)
    /\ \A k \in 1..Len(points) : points[k].vector = Embedding(points[k].chunk_text)

\* An ingestion of a two-chunk document whose second embedding failed, in a
\* collection that holds chunks of an earlier ingestion.
C14_Witness ==
    /\ ingest.pc = "failed"
    /\ Len(ingest.chunks) = 2
    /\ ingest.embed_fails = {2}
    /\ points # <<>>

\* C16: no dedup by content on upsert: every upserted chunk gets a fresh point
\* identity, so an upsert adds one point per chunk, keeps every stored point as
\* it was, and no two stored points share an id, whatever their content.
C16_NoDedupOnUpsert ==
    [][(ingest.pc = "upsert" /\ ingest'.pc = "write_meta") =>
          /\ Len(points') = Len(points) + Len(ingest.chunks)
          /\ SubSeq(points', 1, Len(points)) = points
          /\ \A j, k \in 1..Len(points') : j # k => points'[j].id # points'[k].id]_vars

\* The same document ingested twice: two stored points with the same paper,
\* chunk index and chunk text.
C16_Witness ==
    \E j, k \in 1..Len(points) :
        /\ j # k
        /\ points[j].id # points[k].id
        /\ points[j].paper_id = points[k].paper_id
        /\ points[j].unique_id = points[k].unique_id
        /\ points[j].chunk_index = points[k].chunk_index
        /\ points[j].chunk_text = points[k].chunk_text

\* C17: citation key stability: once the ingestions made so far are complete,
\* all stored chunks of one document carry the same citation key, and that key
\* is the unique_id of the document's metadata record.
C17_KeyStability ==
    ingest.pc = "idle" =>
        /\ \A j, k \in 1..Len(points) :
              points[j].paper_id = points[k].paper_id
                 => points[j].unique_id = points[k].unique_id
        /\ \A k \in 1..Len(points) :
              metadataFiles[points[k].paper_id].exists
                 => metadataFiles[points[k].paper_id].unique_id = points[k].unique_id

\* The stored points of the documents named by the request of the response.
FilteredPoints ==
    {k \in 1..Len(points) :
        rag.req.paper_ids = {} \/ points[k].paper_id \in rag.req.paper_ids}

\* C18: the document filter is an any-of match on the dense and on the fusion
\* path: with a non-empty set of document ids every returned chunk belongs to
\* one of them, `limit` chunks are returned when that many match (all matching
\* ones otherwise), and without ids no document restriction applies.
C18_FilterOnEveryPath ==
    (Responded /\ rag.search = "returned") =>
        /\ rag.search_mode \in {"dense", "fusion"}
        /\ \A k \in 1..Len(rag.results) :
              rag.req.paper_ids # {} => rag.results[k].paper_id \in rag.req.paper_ids
        /\ Len(rag.results) = Min(rag.req.limit, Cardinality(FilteredPoints))
        /\ rag.req.paper_ids = {} =>
              Len(rag.results) = Min(rag.req.limit, Len(points))

\* A fusion query with a document filter over a collection that also holds
\* chunks of another document, returning `limit` chunks.
C18_Witness ==
    /\ Responded
    /\ rag.search_mode = "fusion"
    /\ rag.req.paper_ids # {}
    /\ \E k \in 1..Len(points) : points[k].paper_id \notin rag.req.paper_ids
    /\ Len(rag.results) = rag.req.limit
    /\ rag.req.limit >= 2

----------------------------------------------------------------------------
(* The generation prompt: _clean_context and the context parts of rag_query *)

\* The longest retrieved chunk text.
MaxChunkLen == 6

\* The number of consecutive digits from position i on.
RECURSIVE DigitRun(_, _)
DigitRun(text, i) ==
    IF i > Len(text) \/ ~IsDigit(text[i]) THEN 0 ELSE 1 + DigitRun(text, i + 1)

\* The number of consecutive "." and "," from position i on.
RECURSIVE PunctRun(_, _)
PunctRun(text, i) ==
    IF i > Len(text) \/ text[i] \notin {".", ","} THEN 0
    ELSE 1 + PunctRun(text, i + 1)

\* "\s*\d+(?:\s*,\s*\d+)*\s*" followed by the closing bracket, read from
\* position i on: the position after the closing bracket, 0 without a match.
\* No character of the list is a closing bracket, so the match ends at the
\* first one.
RECURSIVE NumberListEnd(_, _, _, _)
NumberListEnd(text, i, st, close) ==
    IF i > Len(text) THEN 0
    ELSE LET c == text[i]
         IN  CASE st = "start" ->
                    IF IsSpace(c) THEN NumberListEnd(text, i + 1, "start", close)
                    ELSE IF IsDigit(c) THEN NumberListEnd(text, i + 1, "number", close)
                    ELSE 0
               [] st = "number" ->
                    IF IsDigit(c) THEN NumberListEnd(text, i + 1, "number", close)
                    ELSE IF IsSpace(c) THEN NumberListEnd(text, i + 1, "after", close)
                    ELSE IF c = "," THEN NumberListEnd(text, i + 1, "comma", close)
                    ELSE IF c = close THEN i + 1
                    ELSE 0
               [] st = "after" ->
                    IF IsSpace(c) THEN NumberListEnd(text, i + 1, "after", close)
                    ELSE IF c = "," THEN NumberListEnd(text, i + 1, "comma", close)
                    ELSE IF c = close THEN i + 1
                    ELSE 0
               [] st = "comma" ->
                    IF IsSpace(c) THEN NumberListEnd(text, i + 1, "comma", close)
                    ELSE IF IsDigit(c) THEN NumberListEnd(text, i + 1, "number", close)
                    ELSE 0

\* open \d+ close matched at position i: the position after it, 0 without a
\* match.
BracketNumberEnd(text, i, open, close) ==
    IF i > Len(text) \/ text[i] # open THEN 0
    ELSE LET n == DigitRun(text, i + 1)
             e == i + 1 + n
         IN  IF n >= 1 /\ e <= Len(text) /\ text[e] = close THEN e + 1 ELSE 0

\* "(?:\[\d+\])+" matched at position i, as many repetitions as there are.
RECURSIVE BracketRunEnd(_, _)
BracketRunEnd(text, i) ==
    LET e == BracketNumberEnd(text, i, "[", "]")
    IN  IF e = 0 THEN 0
        ELSE LET f == BracketRunEnd(text, e)
             IN  IF f = 0 THEN e ELSE f

\* The five patterns of _clean_context, in the order they are applied.
CleanPatterns ==
    <<"paren_list", "bracket_list", "bracket_run", "bracket_number",
      "paren_number_punct">>

\* The position after the match of a pattern starting at position i, 0 when it
\* does not match there.
MatchEnd(pat, text, i) ==
    CASE pat = "paren_list" ->
           IF text[i] = "(" THEN NumberListEnd(text, i + 1, "start", ")") ELSE 0
      [] pat = "bracket_list" ->
           IF text[i] = "[" THEN NumberListEnd(text, i + 1, "start", "]") ELSE 0
      [] pat = "bracket_run" -> BracketRunEnd(text, i)
      [] pat = "bracket_number" -> BracketNumberEnd(text, i, "[", "]")
      [] pat = "paren_number_punct" ->
           LET e == BracketNumberEnd(text, i, "(", ")")
               p == IF e = 0 THEN 0 ELSE PunctRun(text, e)
           IN  IF p >= 1 THEN e + p ELSE 0

\* re.sub(pattern, '', text): one scan from the left, every match found in the
\* text as given is dropped and the scan goes on after it.
RECURSIVE Sub(_, _, _)
Sub(pat, text, i) ==
    IF i > Len(text) THEN <<>>
    ELSE LET e == MatchEnd(pat, text, i)
         IN  IF e > 0 THEN Sub(pat, text, e)
             ELSE <<text[i]>> \o Sub(pat, text, i + 1)

\* _clean_context: the five substitutions one after the other.
RECURSIVE CleanFrom(_, _)
CleanFrom(text, k) ==
    IF k > Len(CleanPatterns) THEN text
    ELSE CleanFrom(Sub(CleanPatterns[k], text, 1), k + 1)

CleanContext(text) == CleanFrom(text, 1)

\* Characters of a retrieved chunk text.
ChunkAlphabet == {"(", ")", "[", "]", "1", ","}

\* The chunk texts of n characters.
ChunkTextsOfLen(n) == [1..n -> ChunkAlphabet]

\* Chunk texts with markers next to prose and punctuation.
ProseChunkTexts ==
    {<<"a", " ", "(", "1", ",", " ", "2", ")", " ", "b">>,
     <<"a", " ", "[", "1", "]", "[", "2", "]", ".">>,
     <<"a", " ", "(", "1", ")", ".", " ", "b">>,
     <<"(", "[", "1", "]", "1", ")", ".", ",">>,
     <<"a", " ", "[", " ", "1", " ", ",", "2", " ", "]", " ", "(", "b", ")">>}

\* "--- Source: [{citation_key}] ---\n" with the fallback key of a paper.
SourceHeader == <<"-", "-", "-", " ", "S", "o", "u", "r", "c", "e", ":", " ", "[", "P", "]", " ", "-", "-", "-", "\n">>

CleanInit ==
    /\ chunker = ChunkerIdle
    /\ batch = BatchIdle
    /\ ingestLoop = IngestLoopIdle
    /\ embedder = EmbedderIdle
    /\ splitter = SplitterIdle
    /\ fusion = FusionIdle
    /\ prep = PrepIdle
    /\ dims = DimsIdle
    /\ SysInit
    /\ \/ \E text \in ProseChunkTexts :
             cleaner = [CleanerIdle EXCEPT !.pc = "retrieved", !.chunk_text = text]
       \/ \E n \in 0..MaxChunkLen :
             \E text \in ChunkTextsOfLen(n) :
                cleaner = [CleanerIdle EXCEPT !.pc = "retrieved",
                                              !.chunk_text = text]

\* rag_query: "cleaned_text = _clean_context(r["chunk_text"])"
RagCleanContext ==
    /\ cleaner.pc = "retrieved"
    /\ cleaner' = [cleaner EXCEPT !.pc = "cleaned",
                                  !.excerpt = CleanContext(cleaner.chunk_text)]
    /\ UNCHANGED <<chunker, batch, ingestLoop, embedder, splitter, fusion, prep, dims, sysVars>>

\* rag_query: the context part of the chunk, header line and excerpt.
RagAppendContextPart ==
    /\ cleaner.pc = "cleaned"
    /\ cleaner' = [cleaner EXCEPT !.pc = "prompted",
                                  !.context_part = SourceHeader \o cleaner.excerpt]
    /\ UNCHANGED <<chunker, batch, ingestLoop, embedder, splitter, fusion, prep, dims, sysVars>>

CleanNext ==
    \/ RagCleanContext
    \/ RagAppendContextPart

CleanSpec == CleanInit /\ [][CleanNext]_vars

\* open n[,n...] close spans positions i..j of the text.
MarkerAt(text, i, j, open, close) ==
    /\ j > i + 1
    /\ text[i] = open
    /\ text[j] = close
    /\ \A m \in (i + 1)..(j - 1) : IsDigit(text[m]) \/ text[m] = ","
    /\ IsDigit(text[i + 1])
    /\ IsDigit(text[j - 1])
    /\ \A m \in (i + 1)..(j - 2) : ~(text[m] = "," /\ text[m + 1] = ",")

HasNumericMarker(text) ==
    \E i \in 1..Len(text), j \in 1..Len(text) :
        MarkerAt(text, i, j, "(", ")") \/ MarkerAt(text, i, j, "[", "]")

\* The excerpt of the context part, after its header line.
PromptExcerpt == PySlice(cleaner.context_part, Len(SourceHeader),
                         Len(cleaner.context_part))

\* C20: inherited numeric citation markers never reach the prompt: the excerpt
\* of every retrieved chunk text placed in the prompt contains no (n[,n...])
\* and no [n[,n...]], and cleaning the excerpt once more changes nothing.
C20_NoNumericMarkers ==
    cleaner.pc = "prompted" =>
        /\ ~HasNumericMarker(PromptExcerpt)
        /\ CleanContext(PromptExcerpt) = PromptExcerpt

----------------------------------------------------------------------------
(* Hybrid search: the fused query_points call of QdrantService.search *)

\* The number of points the index ranks for one query.
MaxRanked == 3

\* The constant k of reciprocal rank fusion.
RrfK == 60

RankedIds == 1..MaxRanked

\* Scores are fractions of naturals.
Frac(n, d) == [num |-> n, den |-> d]
FracAdd(a, b) == Frac(a.num * b.den + b.num * a.den, a.den * b.den)
FracEq(a, b) == a.num * b.den = b.num * a.den
FracLess(a, b) == a.num * b.den < b.num * a.den

\* The ids of a list of hits.
Ids(list) == {list[r] : r \in 1..Len(list)}

\* The rank of an id in a list of hits, the best hit having rank 1.
RankIn(list, id) == CHOOSE r \in 1..Len(list) : list[r] = id

\* "Prefetch(query=..., using=..., limit=limit)": the best `limit` hits.
PrefetchHits(ranking, limit) == SubSeq(ranking, 1, Min(limit, Len(ranking)))

\* "prefetch=[Prefetch(... using="dense" ...), Prefetch(... using="sparse" ...)]":
\* the lists handed to the combiner, in this order.
FusionPrefetch_DenseTwice(dense, sparse) == <<dense, dense>>
FusionPrefetch(dense, sparse) == <<dense, sparse>>

\* The score a list gives to the hit at a rank.
PositionScore(rank) == Frac(1, rank + RrfK)

\* The scores after the hits of one list, from rank r on, are added.
RECURSIVE AddList(_, _, _)
AddList(scores, list, r) ==
    IF r > Len(list) THEN scores
    ELSE AddList([scores EXCEPT ![list[r]] = FracAdd(@, PositionScore(r))], list, r + 1)

\* Reciprocal rank fusion: the lists are folded in the order supplied.
RECURSIVE RrfScores(_, _)
RrfScores(lists, scores) ==
    IF lists = <<>> THEN scores
    ELSE RrfScores(Tail(lists), AddList(scores, lists[1], 1))

NoScores == [id \in RankedIds |-> Frac(0, 1)]

\* The responses the combiner may give: the hits of the lists by descending
\* fused score, hits of equal score in any order, cut at limit.
FusedResponses(lists, limit) ==
    LET scores == RrfScores(lists, NoScores)
        hits == UNION {Ids(lists[n]) : n \in 1..Len(lists)}
        sorted == {s \in InjSeqs(hits, Cardinality(hits)) :
                      \A a \in 1..Len(s), b \in 1..Len(s) :
                          a < b => ~FracLess(scores[s[a]], scores[s[b]])}
    IN  {[r \in 1..Min(limit, Len(s)) |-> [id |-> s[r], score |-> scores[s[r]]]] :
            s \in sorted}

FusionInit ==
    /\ chunker = ChunkerIdle
    /\ batch = BatchIdle
    /\ ingestLoop = IngestLoopIdle
    /\ embedder = EmbedderIdle
    /\ splitter = SplitterIdle
    /\ cleaner = CleanerIdle
    /\ prep = PrepIdle
    /\ dims = DimsIdle
    /\ SysInit
    /\ \E limit \in 1..MaxRanked, n \in 0..MaxRanked :
         \E dense \in InjSeqs(RankedIds, MaxRanked), sparse \in InjSeqs(RankedIds, n) :
            fusion = [FusionIdle EXCEPT !.pc = "called", !.limit = limit,
                                        !.dense_ranking = dense,
                                        !.sparse_ranking = sparse]

\* The two prefetches of the fused query, each capped at limit.
QueryPointsPrefetch ==
    /\ fusion.pc = "called"
    /\ fusion' = [fusion EXCEPT
                    !.pc = "prefetched",
                    !.dense_hits = PrefetchHits(fusion.dense_ranking, fusion.limit),
                    !.sparse_hits = PrefetchHits(fusion.sparse_ranking, fusion.limit)]
    /\ UNCHANGED <<chunker, batch, ingestLoop, embedder, splitter, cleaner, prep, dims, sysVars>>

\* "query=FusionQuery(fusion=Fusion.RRF), limit=limit"
QueryPointsFuse ==
    /\ fusion.pc = "prefetched"
    /\ \E response \in FusedResponses(FusionPrefetch(fusion.dense_hits,
                                                     fusion.sparse_hits),
                                      fusion.limit) :
          fusion' = [fusion EXCEPT !.pc = "fused", !.response = response]
    /\ UNCHANGED <<chunker, batch, ingestLoop, embedder, splitter, cleaner, prep, dims, sysVars>>

FusionNext ==
    \/ QueryPointsPrefetch
    \/ QueryPointsFuse

FusionSpec == FusionInit /\ [][FusionNext]_vars

\* The sum over the lists a hit appears in of 1 / (rank + k).
ReciprocalRankSum(id) ==
    LET inDense == IF id \in Ids(fusion.dense_hits)
                   THEN Frac(1, RankIn(fusion.dense_hits, id) + RrfK)
                   ELSE Frac(0, 1)
        inSparse == IF id \in Ids(fusion.sparse_hits)
                    THEN Frac(1, RankIn(fusion.sparse_hits, id) + RrfK)
                    ELSE Frac(0, 1)
    IN  Frac(inDense.num * inSparse.den + inSparse.num * inDense.den,
             inDense.den * inSparse.den)

----------------------------------------------------------------------------
(* Properties of the citations map of a RAG response *)

\* The retrieved results whose paper metadata lookup returns a record.
ResolvedResults ==
    {k \in 1..Len(rag.results) : metadataFiles[rag.results[k].paper_id].exists}

CitationFields == {"apa", "bibtex", "unique_id"}

----------------------------------------------------------------------------
(* PreprocessingService: convert_single_pdf, delete_preprocessed, history.json *)

\* Worker threads serving preprocessing calls, and calls made in one run.
MaxThreads == 2
MaxCalls == 3

Threads == 1..MaxThreads

\* The PDFs of pdf_input: <<directory, filename>>.
Pdfs == {<<"d1", "a.pdf">>, <<"d1", "b.pdf">>, <<"d2", "a.pdf">>}

PrepStart ==
    [PrepIdle EXCEPT !.threads = [t \in Threads |-> NoCall],
                     !.last_op = [f \in Pdfs |-> "none"]]

Active == {t \in Threads : prep.threads[t].pc # "idle"}

Target(t) == <<prep.threads[t].dir, prep.threads[t].file>>

\* "with _history_lock:" is entered when no thread holds the lock.
LockFree_Always(lock) == TRUE
LockFree(lock) == lock = 0

\* A call arrives and a free worker thread takes it. At most maxActive calls
\* run at a time; sameFile allows a call on a file another running call is on.
PrepCall(maxActive, sameFile) ==
    /\ prep.started < MaxCalls
    /\ Cardinality(Active) < maxActive
    /\ \E t \in Threads, f \in Pdfs, op \in {"convert", "delete"} :
          /\ prep.threads[t].pc = "idle"
          /\ \A u \in Threads \ {t} : prep.threads[u].pc = "idle" => t < u
          /\ sameFile \/ \A u \in Active : Target(u) # f
          /\ prep' = [prep EXCEPT
                        !.started = @ + 1,
                        !.threads[t] =
                            [op |-> op, dir |-> f[1], file |-> f[2],
                             pc |-> IF op = "convert" THEN "write_md" ELSE "check_md",
                             local |-> EmptyHistory]]

\* convert_single_pdf: "md_path.write_text(markdown_content)"
ConvertWriteMd(t) ==
    /\ prep.threads[t].pc = "write_md"
    /\ prep' = [prep EXCEPT !.md = @ \cup {Target(t)},
                            !.threads[t].pc = "write_meta"]

\* convert_single_pdf: "metadata_path.write_text(...)"
ConvertWriteMeta(t) ==
    /\ prep.threads[t].pc = "write_meta"
    /\ prep' = [prep EXCEPT !.meta = @ \cup {Target(t)},
                            !.threads[t].pc = "lock"]

\* delete_preprocessed: "if p.exists():" for the markdown, then the metadata.
DeleteCheck(t) ==
    \/ /\ prep.threads[t].pc = "check_md"
       /\ prep' = [prep EXCEPT !.threads[t].pc =
                      IF Target(t) \in prep.md THEN "unlink_md" ELSE "check_meta"]
    \/ /\ prep.threads[t].pc = "check_meta"
       /\ prep' = [prep EXCEPT !.threads[t].pc =
                      IF Target(t) \in prep.meta THEN "unlink_meta" ELSE "lock"]

\* delete_preprocessed: "p.unlink()"; FileNotFoundError ends the call when the
\* file went away after the check.
DeleteUnlink(t) ==
    \/ /\ prep.threads[t].pc = "unlink_md"
       /\ IF Target(t) \in prep.md
          THEN prep' = [prep EXCEPT !.md = @ \ {Target(t)},
                                    !.threads[t].pc = "check_meta"]
          ELSE prep' = [prep EXCEPT !.threads[t] = NoCall, !.failed = @ + 1]
    \/ /\ prep.threads[t].pc = "unlink_meta"
       /\ IF Target(t) \in prep.meta
          THEN prep' = [prep EXCEPT !.meta = @ \ {Target(t)},
                                    !.threads[t].pc = "lock"]
          ELSE prep' = [prep EXCEPT !.threads[t] = NoCall, !.failed = @ + 1]

\* _update_history / _remove_from_history: "with _history_lock:"
HistoryAcquire(t) ==
    /\ prep.threads[t].pc = "lock"
    /\ LockFree(prep.lock)
    /\ prep' = [prep EXCEPT !.lock = t, !.threads[t].pc = "read"]

\* The history after "entry['files'].append(filename)" (unless listed) and
\* "entry['last_processed'] = now".
UpdatedHistory(history, dir, file, now) ==
    LET files == IF dir \in DOMAIN history THEN history[dir].files ELSE <<>>
        listed == \E k \in 1..Len(files) : files[k] = file
    IN  (dir :> [files |-> IF listed THEN files ELSE Append(files, file),
                 last_processed |-> now]) @@ history

\* list.remove: the sequence without the first occurrence of x.
RECURSIVE ListRemove(_, _)
ListRemove(s, x) ==
    IF s = <<>> THEN <<>>
    ELSE IF s[1] = x THEN Tail(s)
    ELSE <<s[1]>> \o ListRemove(Tail(s), x)

\* _remove_from_history writes only "if entry and filename in entry['files']".
IsListed(history, dir, file) ==
    /\ dir \in DOMAIN history
    /\ \E k \in 1..Len(history[dir].files) : history[dir].files[k] = file

\* The history after "entry['files'].remove(filename)" and the deletion of a
\* directory entry left without files.
RemoveEmptyEntry_Keep(history, dir) == history
RemoveEmptyEntry(history, dir) ==
    IF history[dir].files = <<>>
    THEN [d \in DOMAIN history \ {dir} |-> history[d]]
    ELSE history

RemovedHistory(history, dir, file) ==
    RemoveEmptyEntry([history EXCEPT ![dir].files = ListRemove(@, file)], dir)

\* The call of thread t returns, the last one to complete on its file.
Completed(p, t) ==
    [p EXCEPT !.threads[t] = NoCall, !.last_op[Target(t)] = prep.threads[t].op]

\* "history = self.get_history()" and the change made to the copy read; a
\* removal of a file that is not listed writes nothing and leaves the lock.
HistoryRead(t) ==
    /\ prep.threads[t].pc = "read"
    /\ LET c == prep.threads[t]
       IN  IF c.op = "convert"
           THEN prep' = [prep EXCEPT
                           !.clock = @ + 1,
                           !.threads[t].pc = "write",
                           !.threads[t].local =
                               UpdatedHistory(prep.history, c.dir, c.file, prep.clock + 1)]
           ELSE IF IsListed(prep.history, c.dir, c.file)
           THEN prep' = [prep EXCEPT
                           !.threads[t].pc = "write",
                           !.threads[t].local =
                               RemovedHistory(prep.history, c.dir, c.file)]
           ELSE prep' = Completed([prep EXCEPT !.lock = IF @ = t THEN 0 ELSE @], t)

\* "self.history_path.write_text(json.dumps(history))", the end of the with
\* block and the return of the call.
HistoryWrite(t) ==
    /\ prep.threads[t].pc = "write"
    /\ prep' = Completed([prep EXCEPT !.history = prep.threads[t].local,
                                      !.lock = IF @ = t THEN 0 ELSE @], t)

PrepStep ==
    \E t \in Threads :
        \/ ConvertWriteMd(t)
        \/ ConvertWriteMeta(t)
        \/ DeleteCheck(t)
        \/ DeleteUnlink(t)
        \/ HistoryAcquire(t)
        \/ HistoryRead(t)
        \/ HistoryWrite(t)

PrepInit ==
    /\ chunker = ChunkerIdle
    /\ batch = BatchIdle
    /\ ingestLoop = IngestLoopIdle
    /\ embedder = EmbedderIdle
    /\ splitter = SplitterIdle
    /\ cleaner = CleanerIdle
    /\ fusion = FusionIdle
    /\ dims = DimsIdle
    /\ SysInit
    /\ prep = PrepStart

PrepUnchanged ==
    UNCHANGED <<chunker, batch, ingestLoop, embedder, splitter, cleaner, fusion, dims,
                sysVars>>

\* One call after the other.
HistoryCall == PrepCall(1, FALSE) /\ PrepUnchanged
HistoryStep == PrepStep /\ PrepUnchanged
HistoryNext ==
    \/ HistoryCall
    \/ HistoryStep

HistorySpec == PrepInit /\ [][HistoryNext]_vars

\* Concurrent calls, no two running calls on the same file.
DisjointCall == PrepCall(MaxThreads, FALSE) /\ PrepUnchanged
DisjointStep == PrepStep /\ PrepUnchanged
DisjointNext ==
    \/ DisjointCall
    \/ DisjointStep

DisjointSpec == PrepInit /\ [][DisjointNext]_vars

\* Concurrent calls on any files.
RaceCall == PrepCall(MaxThreads, TRUE) /\ PrepUnchanged
RaceStep == PrepStep /\ PrepUnchanged
RaceNext ==
    \/ RaceCall
    \/ RaceStep

RaceSpec == PrepInit /\ [][RaceNext]_vars

\* No call is running.
PrepQuiescent == Active = {}

\* The files history.json lists under a directory.
Listed(dir) ==
    IF dir \in DOMAIN prep.history
    THEN {prep.history[dir].files[k] : k \in 1..Len(prep.history[dir].files)}
    ELSE {}

\* The files of a directory that were converted and not deleted since.
Converted(dir) == {f[2] : f \in {g \in Pdfs : g[1] = dir /\ prep.last_op[g] = "convert"}}

PdfDirs == {f[1] : f \in Pdfs}

\* C23: starting from the empty history, after any sequential series of
\* successful convert_single_pdf and delete_preprocessed calls, the history
\* lists under each directory exactly the files converted and not deleted
\* since, each once, with last_processed set, and has no directory entry with
\* an empty file list.
C23_HistoryTracksConversions ==
    PrepQuiescent =>
        /\ \A dir \in PdfDirs : Listed(dir) = Converted(dir)
        /\ \A dir \in DOMAIN prep.history :
              LET e == prep.history[dir]
              IN  /\ e.files # <<>>
                  /\ \A a \in 1..Len(e.files), b \in 1..Len(e.files) :
                        e.files[a] = e.files[b] => a = b
                  /\ e.last_processed > 0

\* A file converted twice and then deleted, which empties the history again.
C23_Witness ==
    /\ PrepQuiescent
    /\ prep.started = MaxCalls
    /\ prep.clock = 2
    /\ prep.last_op[<<"d1", "a.pdf">>] = "delete"
    /\ DOMAIN prep.history = {}

\* C27: for any interleaving of concurrent convert_single_pdf and
\* delete_preprocessed calls on different files, the updates of history.json
\* are serialized by the lock: once the calls have returned, the history lists
\* every file whose conversion completed and was not deleted since, and none
\* whose deletion completed.
C27_NoLostHistoryUpdates ==
    /\ \A a \in Threads, b \in Threads :
          (prep.threads[a].pc \in {"read", "write"}
             /\ prep.threads[b].pc \in {"read", "write"}) => a = b
    /\ PrepQuiescent => \A dir \in PdfDirs : Listed(dir) = Converted(dir)

\* Two conversions of different files of one directory ran at the same time.
C27_Witness ==
    /\ prep.threads[1].pc = "lock"
    /\ prep.threads[2].pc = "write"
    /\ prep.threads[1].op = "convert"
    /\ prep.threads[2].op = "convert"
    /\ prep.threads[1].dir = prep.threads[2].dir

\* C28: in every quiescent state reached by any interleaving of concurrent
\* convert_single_pdf and delete_preprocessed calls on the same file, the file
\* is listed in history.json if and only if its preprocessed markdown exists.
C28_HistoryAgreesWithDisk ==
    PrepQuiescent =>
        \A f \in Pdfs : (f[2] \in Listed(f[1])) <=> (f \in prep.md)

----------------------------------------------------------------------------
(* Properties of the character chunking loop *)

\* ceil(a / b) for a >= 0 and b > 0.
CeilDiv(a, b) == (a + b - 1) \div b

\* A character-mode call with 0 <= overlap < size.
CharacterRun == chunker.mode = "characters" /\ chunker.overlap < chunker.size

\* The number of chunks of a text longer than size.
ChunkCount ==
    CeilDiv(Len(chunker.text) - chunker.overlap, chunker.size - chunker.overlap)

LastChunk == chunker.chunks[Len(chunker.chunks)]

\* C24: character-mode chunking terminates with a fixed chunk count: for
\* 0 <= overlap < size the loop never makes more chunks than the count, the
\* result is 1 chunk when L <= size and ceil((L - overlap) / (size - overlap))
\* chunks otherwise, and the final chunk is always longer than overlap.
C24_FixedChunkCount_AsStated ==
    CharacterRun =>
        /\ chunker.pc = "char_loop" => Len(chunker.chunks) < ChunkCount
        /\ chunker.pc = "done" =>
              /\ Len(chunker.chunks) =
                    IF Len(chunker.text) <= chunker.size THEN 1 ELSE ChunkCount
              /\ Len(LastChunk) > chunker.overlap

\* C24 amended: as stated, but the final chunk is longer than overlap when the
\* text is longer than size; a text of at most size characters is returned
\* whole as the only chunk.
C24_FixedChunkCount ==
    CharacterRun =>
        /\ chunker.pc = "char_loop" => Len(chunker.chunks) < ChunkCount
        /\ chunker.pc = "done" =>
              IF Len(chunker.text) <= chunker.size
              THEN chunker.chunks = <<chunker.text>>
              ELSE /\ Len(chunker.chunks) = ChunkCount
                   /\ Len(LastChunk) > chunker.overlap

\* A finished run over a text longer than size with an overlap, whose count is
\* not a whole number of steps.
C24_Witness ==
    /\ CharacterRun
    /\ chunker.pc = "done"
    /\ chunker.overlap >= 1
    /\ Len(chunker.chunks) >= 3
    /\ (Len(chunker.text) - chunker.overlap) % (chunker.size - chunker.overlap) # 0

----------------------------------------------------------------------------
(* Collections and ingestion when a backend call fails part-way *)

\* POST /ingest/create on a free id when the embedding probe or the index
\* call raises: the directories made before the call stay, the exception
\* leaves the handler (500) and no collection_info.json is written.
CreateCollectionFails ==
    /\ Quiet
    /\ ~dirExists
    /\ \E search_type \in {"dense", "hybrid"}, failing \in {"probe", "index"} :
          crt' = [CrtIdle EXCEPT !.pc = "responded", !.search_type = search_type,
                                 !.status = 500, !.probe_calls = 1,
                                 !.index_create_calls =
                                     IF failing = "index" THEN 1 ELSE 0]
    /\ dirExists' = TRUE
    /\ UNCHANGED <<toolVars, collectionInfo, index, points, nextId, metadataFiles,
                   ingest, rag, qry>>

\* POST /collections (CollectionService.create_collection): a taken id is
\* refused with 409; on a free id the directories are made and a dense index
\* collection of the default size is created, without probe and without
\* collection_info.json. An index call that raises leaves the directories.
CreateCollectionByName ==
    /\ Quiet
    /\ \E index_fails \in BOOLEAN :
         LET called == [CrtIdle EXCEPT !.pc = "responded", !.search_type = "dense"]
         IN  IF dirExists
             THEN /\ crt' = [called EXCEPT !.status = 409, !.taken = TRUE]
                  /\ UNCHANGED <<dirExists, index>>
             ELSE IF index_fails \/ index # "none"
             THEN /\ crt' = [called EXCEPT !.status = 500, !.index_create_calls = 1]
                  /\ dirExists' = TRUE
                  /\ UNCHANGED index
             ELSE /\ crt' = [called EXCEPT !.status = 200, !.index_create_calls = 1]
                  /\ dirExists' = TRUE
                  /\ index' = "dense"
    /\ UNCHANGED <<toolVars, collectionInfo, points, nextId, metadataFiles, ingest,
                   rag, qry>>

\* upsert_chunks when the index call raises: nothing is stored and the
\* endpoint answers 500.
IngestUpsertFails ==
    /\ Quiet
    /\ ingest.pc = "upsert"
    /\ ingest' = [ingest EXCEPT !.pc = "failed"]
    /\ UNCHANGED <<toolVars, crt, dirExists, collectionInfo, index, points, nextId,
                   metadataFiles, rag, qry>>

\* ingest_file when writing metadata/<paper_id>.json raises after the upsert:
\* the points stay in the index and the endpoint answers 500.
IngestWriteMetaFails ==
    /\ Quiet
    /\ ingest.pc = "write_meta"
    /\ dirExists' = TRUE
    /\ ingest' = [ingest EXCEPT !.pc = "failed"]
    /\ UNCHANGED <<toolVars, crt, collectionInfo, index, points, nextId,
                   metadataFiles, rag, qry>>

FailNext ==
    \/ CreateCollection
    \/ CreateCollectionFails
    \/ CreateCollectionByName
    \/ CreateReturn
    \/ DeleteCollection
    \/ IngestCall
    \/ IngestFailed
    \/ IngestUpsert
    \/ IngestUpsertFails
    \/ IngestWriteMeta
    \/ IngestWriteMetaFails

FailSpec == Init /\ [][FailNext]_vars

\* C25: collection stores stay consistent under failure: after any sequence
\* of create and delete operations in which the embedding probe or an index
\* call may fail, the collection directory exists if and only if the index
\* collection exists and collection_info.json is present; a create that failed
\* leaves the id free.
C25_StoresConsistent ==
    /\ dirExists <=> (index # "none" /\ collectionInfo # "none")
    /\ (crt.pc = "responded" /\ crt.status = 500) => ~dirExists

\* The chunk points of a document.
PointsOf(p) == {k \in 1..Len(points) : points[k].paper_id = p}

\* C26: ingestion is atomic per document: once no ingestion is running on an
\* intact collection, a document has points in the index if and only if it has
\* a metadata record, and a successful ingest adds as many points as the
\* chunks_created and embeddings_generated it reports.
C26_IngestAtomic ==
    /\ (ingest.pc \in {"idle", "failed"} /\ index # "none") =>
          \A p \in PaperIds : (PointsOf(p) # {}) <=> metadataFiles[p].exists
    /\ ingest.pc = "write_meta" =>
          /\ ingest.upserted = Len(ingest.chunks)
          /\ ingest.upserted = Len(ingest.embeddings)

\* C29: citation keys identify documents: after any sequence of ingestions
\* into one collection, two documents with distinct paper_id never share a
\* unique_id.
C29_KeysIdentifyDocuments ==
    \A a \in 1..Len(points), b \in 1..Len(points) :
        points[a].paper_id # points[b].paper_id
            => points[a].unique_id # points[b].unique_id

----------------------------------------------------------------------------
\* The length of the dense vectors: the embedding model named in config.yaml,
\* the vector size an index collection is created with, and the vectors the
\* request handlers send to it.  Every handler builds its OllamaService from
\* config.yaml anew, so a settings update is in force for the next request.

\* Requests counted in one run.
MaxRequests == 5

\* OllamaService's default model and the model config.yaml names.
EmbeddingModels == {"nomic-embed-text", "mxbai-embed-large"}

\* len(response["embedding"]) for each model.
EmbeddingLength(model) ==
    IF model = "mxbai-embed-large" THEN 1024 ELSE 768

\* "vector_size: int = 768" of QdrantService.create_collection.
DefaultVectorSize == 768

\* "dummy_embedding = [0.0] * 1024" of compare_papers.
CompareDummyLength == 1024

\* "vector_size = qdrant.get_vector_size(collection_id)" of summarize_papers.
SummarizeDummyLength(vector_size) == vector_size

DimInit ==
    /\ chunker = ChunkerIdle
    /\ batch = BatchIdle
    /\ ingestLoop = IngestLoopIdle
    /\ embedder = EmbedderIdle
    /\ splitter = SplitterIdle
    /\ cleaner = CleanerIdle
    /\ fusion = FusionIdle
    /\ prep = PrepIdle
    /\ SysInit
    /\ dims = DimsIdle

DimUnchanged ==
    UNCHANGED <<chunker, batch, ingestLoop, embedder, splitter, cleaner, fusion, prep,
                sysVars>>

\* One more request is served.
DimRequest ==
    dims.requests < MaxRequests

\* POST /settings with embedding_model: written to config.yaml.
UpdateSettings ==
    /\ DimRequest
    /\ \E model \in EmbeddingModels :
          dims' = [dims EXCEPT !.embedding_model = model, !.requests = @ + 1]
    /\ DimUnchanged

\* IngestionService.create_collection: "sample_embedding = generate_embedding("test");
\* vector_size = len(sample_embedding)".
DimCreateCollection ==
    /\ DimRequest
    /\ dims.vector_size = 0
    /\ dims' = [dims EXCEPT !.vector_size = EmbeddingLength(dims.embedding_model),
                            !.requests = @ + 1]
    /\ DimUnchanged

\* CollectionService.create_collection: "self.qdrant.create_collection(collection_id)",
\* no probe, the default vector size.
DimCreateCollectionByName ==
    /\ DimRequest
    /\ dims.vector_size = 0
    /\ dims' = [dims EXCEPT !.vector_size = DefaultVectorSize, !.requests = @ + 1]
    /\ DimUnchanged

\* DELETE /collections/{collection_id}.
DimDeleteCollection ==
    /\ DimRequest
    /\ dims.vector_size # 0
    /\ dims' = [dims EXCEPT !.vector_size = 0, !.requests = @ + 1]
    /\ DimUnchanged

\* A dense vector of the given length goes to the index collection.
Send(op, length) ==
    /\ DimRequest
    /\ dims.vector_size # 0
    /\ dims' = [dims EXCEPT !.requests = @ + 1,
                            !.sent = [op |-> op, length |-> length,
                                      vector_size |-> dims.vector_size]]
    /\ DimUnchanged

\* ingest_file: generate_embeddings_batch(chunk_texts), then upsert_chunks.
DimIngestFile ==
    Send("ingest", EmbeddingLength(dims.embedding_model))

\* rag_query: "query_embedding = ollama.generate_embedding(rag_request.query_text)".
DimRagQuery ==
    Send("rag", EmbeddingLength(dims.embedding_model))

\* query_collection: "query_embedding = ollama.generate_embedding(query_request.query_text)".
DimQueryCollection ==
    Send("query", EmbeddingLength(dims.embedding_model))

\* summarize_papers: "dummy_embedding = [0.0] * vector_size".
DimSummarize ==
    Send("summarize", SummarizeDummyLength(dims.vector_size))

\* compare_papers: "dummy_embedding = [0.0] * 1024".
DimCompare ==
    Send("compare", CompareDummyLength)

DimNext ==
    \/ UpdateSettings
    \/ DimCreateCollection
    \/ DimCreateCollectionByName
    \/ DimDeleteCollection
    \/ DimIngestFile
    \/ DimRagQuery
    \/ DimQueryCollection
    \/ DimSummarize
    \/ DimCompare

DimSpec == DimInit /\ [][DimNext]_vars

\* C30: every dense vector sent to the index collection (chunk vectors on ingest,
\* query vectors from rag, query, summarize and compare) has the length the
\* collection was created with.
C30_VectorsMatchDimension ==
    dims.sent.op # "none" => dims.sent.length = dims.sent.vector_size

====
